---- MODULE Spec2Model ----
(***************************************************************************)
(* A model of wax, the filter-based XMPP component framework:              *)
(*   - the pending table of the correlation context (correlation.rs),      *)
(*   - the run loop of the server (server.rs),                             *)
(*   - the filter service future and the synthesis of error stanzas        *)
(*     (filter/service.rs), with the resolution of rejections (reject.rs). *)
(***************************************************************************)
EXTENDS Naturals, Integers, Sequences, FiniteSets, TLC

(***************************************************************************)
(* Bounds of the model.                                                    *)
(***************************************************************************)
MaxId == 2          \* stanza ids are 1..MaxId
MaxJid == 2         \* addresses are 1..MaxJid
MaxChan == 2        \* oneshot channels created by register
MaxCalls == 4       \* calls on the context in the table specification
NumEvals == 2       \* callers of the context in the table specification
MaxInbound == 2     \* stanzas the transport delivers
MaxOps == 2         \* context calls the filter chain makes in a run
MaxPolls == 1       \* polls of one evaluation that return Pending
MaxCauses == 3      \* causes a chain of or branches accumulates
NumFutures == 2     \* FilteredFutures alive at once

(***************************************************************************)
(* Stanzas (tokio_xmpp::Stanza).  Option::None is NoId / NoJid / NoStanza. *)
(***************************************************************************)
NoId == 0
NoJid == 0
NoSender == 0
Ids == 1 .. MaxId
Jids == 1 .. MaxJid
OptIds == {NoId} \cup Ids
OptJids == {NoJid} \cup Jids

IqTypes == {"Get", "Set", "Result", "Error"}
MessageTypes == {"Chat", "Normal", "Error"}
PresenceTypes == {"None", "Subscribe", "Error"}

NoError == [type |-> "none", condition |-> "none", lang |-> "", text |-> ""]

MkStanza(k, t, f, o, i, e, p) ==
    [kind |-> k, type |-> t, from |-> f, to |-> o, id |-> i, error |-> e, payload |-> p]

NoStanza == MkStanza("None", "", NoJid, NoJid, NoId, NoError, "None")

\* an IQ always carries an id; Message and Presence ids are optional
IqStanzas ==
    {MkStanza("Iq", t, f, o, i, NoError, "Some") :
        t \in IqTypes, f \in OptJids, o \in OptJids, i \in Ids}
MessageStanzas ==
    {MkStanza("Message", t, f, o, i, NoError, "Some") :
        t \in MessageTypes, f \in OptJids, o \in OptJids, i \in OptIds}
PresenceStanzas ==
    {MkStanza("Presence", t, f, o, i, NoError, "None") :
        t \in PresenceTypes, f \in OptJids, o \in OptJids, i \in OptIds}
Stanzas == IqStanzas \cup MessageStanzas \cup PresenceStanzas

\* GetStanzaId for Stanza: Some(id) for an IQ, the optional id otherwise
get_stanza_id(st) ==
    CASE st.kind = "Iq" -> st.id
      [] st.kind = "Message" -> IF st.id = NoId THEN NoId ELSE st.id
      [] st.kind = "Presence" -> IF st.id = NoId THEN NoId ELSE st.id
      [] OTHER -> NoId

(***************************************************************************)
(* Rejections (reject.rs).  A Rejection is <<"ItemNotFound">> or           *)
(* <<"Other", r>>, r a Rejections tree: <<"Known", k>>, <<"Custom", c>>    *)
(* or <<"Combined", a, b>>.                                                *)
(***************************************************************************)
Known ==
    {"BadRequest", "Conflict", "FeatureNotImplemented", "Forbidden", "Gone",
     "InternalServerError", "ItemNotFound", "JidMalformed", "NotAcceptable",
     "NotAllowed", "NotAuthorized", "RecipientUnavailable", "Redirect",
     "RegistrationRequired", "RemoteServerNotFound", "RemoteServerTimeout",
     "ResourceConstraint", "ServiceUnavailable", "SubscriptionRequired",
     "UndefinedCondition", "UnexpectedRequest"}

\* Debug renderings of the custom causes of the application: two unit
\* structs and two values of one tuple struct
Customs == {"Left", "Right", "X(0)", "X(1)"}
\* the type of a custom cause
CustomType(c) == IF c \in {"X(0)", "X(1)"} THEN "X" ELSE c

item_not_found == <<"ItemNotFound">>
known(k) == <<"Other", <<"Known", k>>>>
custom(c) == <<"Other", <<"Custom", c>>>>

\* the text given to unit_error! for each known cause
KnownText_name(k) == k
KnownText(k) ==
    CASE k = "BadRequest" -> "bad-request"
      [] k = "Conflict" -> "conflict"
      [] k = "FeatureNotImplemented" -> "feature-not-implemented"
      [] k = "Forbidden" -> "forbidden"
      [] k = "Gone" -> "gone"
      [] k = "InternalServerError" -> "internal-server-error"
      [] k = "ItemNotFound" -> "item-not-found"
      [] k = "JidMalformed" -> "jid-malformed"
      [] k = "NotAcceptable" -> "not-acceptable"
      [] k = "NotAllowed" -> "not-allowed"
      [] k = "NotAuthorized" -> "not-authorized"
      [] k = "RecipientUnavailable" -> "recipient-unavailable"
      [] k = "Redirect" -> "redirect"
      [] k = "RegistrationRequired" -> "registration-required"
      [] k = "RemoteServerNotFound" -> "remote-server-not-found"
      [] k = "RemoteServerTimeout" -> "remote-server-timeout"
      [] k = "ResourceConstraint" -> "resource-constraint"
      [] k = "ServiceUnavailable" -> "service-unavailable"
      [] k = "SubscriptionRequired" -> "subscription-required"
      [] k = "UndefinedCondition" -> "undefined-condition"
      [] k = "UnexpectedRequest" -> "unexpected-request"

\* Rejections::error_condition on a leaf
LeafCondition_internal(r) ==
    IF r[1] = "Known" THEN r[2] ELSE "InternalServerError"
LeafCondition(r) ==
    IF r[1] = "Known" THEN r[2] ELSE "UndefinedCondition"

\* Rejections::preferred
RECURSIVE preferred_last(_)
preferred_last(r) ==
    IF r[1] = "Combined"
    THEN LET a == preferred_last(r[2])
             b == preferred_last(r[3])
         IN  IF LeafCondition(b) = "ItemNotFound" THEN a
             ELSE IF LeafCondition(a) = "ItemNotFound" THEN b
             ELSE b
    ELSE r
RECURSIVE preferred(_)
preferred(r) ==
    IF r[1] = "Combined"
    THEN LET a == preferred(r[2])
             b == preferred(r[3])
         IN  IF LeafCondition(b) = "ItemNotFound" THEN a
             ELSE IF LeafCondition(a) = "ItemNotFound" THEN b
             ELSE a
    ELSE r

\* Rejections::error_condition
error_condition(r) == LeafCondition(preferred(r))

\* Rejections::error_type
error_type_allcancel(r) == "Cancel"
error_type(r) ==
    LET p == preferred(r)
    IN  IF p[1] = "Known"
        THEN CASE p[2] \in {"NotAuthorized", "Forbidden", "RegistrationRequired",
                            "SubscriptionRequired"} -> "Auth"
               [] p[2] \in {"Conflict", "FeatureNotImplemented", "Gone",
                            "InternalServerError", "ItemNotFound", "NotAllowed",
                            "RemoteServerNotFound"} -> "Cancel"
               [] p[2] \in {"BadRequest", "JidMalformed", "NotAcceptable",
                            "Redirect"} -> "Modify"
               [] p[2] \in {"RecipientUnavailable", "RemoteServerTimeout",
                            "ResourceConstraint", "ServiceUnavailable"} -> "Wait"
               [] OTHER -> "Cancel"
        ELSE "Cancel"

StanzaErrorNew(t, c, l, x) == [type |-> t, condition |-> c, lang |-> l, text |-> x]

\* Rejections::into_stanza_error
RejectionsIntoStanzaError(r) ==
    LET p == preferred(r)
    IN  IF p[1] = "Known"
        THEN StanzaErrorNew(error_type(p), error_condition(p), "en", KnownText(p[2]))
        ELSE StanzaErrorNew("Cancel", "UndefinedCondition", "en",
                            "Unhandled rejection: " \o p[2])

\* IsReject::into_stanza_error for Rejection
into_stanza_error(rej) ==
    IF rej[1] = "ItemNotFound"
    THEN StanzaErrorNew("Cancel", "ItemNotFound", "en", "item-not-found")
    ELSE RejectionsIntoStanzaError(rej[2])

\* IsReject::error_condition for Rejection
RejectionErrorCondition(rej) ==
    IF rej[1] = "ItemNotFound" THEN "ItemNotFound" ELSE error_condition(rej[2])

\* CombineRejection<Rejection> for Rejection
combine_defaultwins(a, b) ==
    IF a[1] = "Other" /\ b[1] = "Other" THEN <<"Other", <<"Combined", a[2], b[2]>>>>
    ELSE IF a[1] = "Other" THEN a
    ELSE item_not_found
combine_swapped(a, b) ==
    IF a[1] = "Other" /\ b[1] = "Other" THEN <<"Other", <<"Combined", b[2], a[2]>>>>
    ELSE IF a[1] = "Other" THEN a
    ELSE IF b[1] = "Other" THEN b
    ELSE item_not_found
combine_second(a, b) == b
combine(a, b) ==
    IF a[1] = "Other" /\ b[1] = "Other" THEN <<"Other", <<"Combined", a[2], b[2]>>>>
    ELSE IF a[1] = "Other" THEN a
    ELSE IF b[1] = "Other" THEN b
    ELSE item_not_found

\* Rejection::is_item_not_found
is_item_not_found(rej) == rej[1] = "ItemNotFound"

\* Option::None for a cause
NoCause == <<"None">>
\* the types find is asked for: those of the known and of the custom causes
KnownType(k) == <<"Known", k>>
CustomTypeOf(c) == <<"Custom", CustomType(c)>>

\* Rejections::find: the downcast of a leaf succeeds if it is of type T
RECURSIVE find_leftonly(_, _)
find_leftonly(r, T) ==
    CASE r[1] = "Known" -> IF T = KnownType(r[2]) THEN r ELSE NoCause
      [] r[1] = "Custom" -> IF T = CustomTypeOf(r[2]) THEN r ELSE NoCause
      [] r[1] = "Combined" -> find_leftonly(r[2], T)
RECURSIVE find(_, _)
find(r, T) ==
    CASE r[1] = "Known" -> IF T = KnownType(r[2]) THEN r ELSE NoCause
      [] r[1] = "Custom" -> IF T = CustomTypeOf(r[2]) THEN r ELSE NoCause
      [] r[1] = "Combined" ->
           LET fa == find(r[2], T)
           IN  IF fa # NoCause THEN fa ELSE find(r[3], T)

\* Rejection::find
RejectionFind(rej, T) ==
    IF rej[1] = "Other" THEN find(rej[2], T) ELSE NoCause

(***************************************************************************)
(* Synthesis of the error stanza (filter/service.rs).                      *)
(***************************************************************************)
\* Message::new(to): a chat message to `to` with nothing else set
MessageNew(to) == MkStanza("Message", "Chat", NoJid, to, NoId, NoError, "None")
\* Presence::new(type)
PresenceNew(t) == MkStanza("Presence", t, NoJid, NoJid, NoId, NoError, "None")

\* variants of make_error_stanza with a slip: the addresses are not swapped;
\* a stanza without an id is answered
make_error_stanza_unswapped(original, error) ==
    CASE original.kind = "Iq" ->
           MkStanza("Iq", "Error", original.from, original.to, original.id, error, "None")
      [] original.kind = "Message" ->
           IF original.type = "Error" \/ original.id = NoId
           THEN NoStanza
           ELSE [MessageNew(original.to) EXCEPT
                    !.from = original.from, !.id = original.id,
                    !.type = "Error", !.error = error]
      [] original.kind = "Presence" ->
           IF original.type = "Error" \/ original.id = NoId
           THEN NoStanza
           ELSE [PresenceNew("Error") EXCEPT
                    !.from = original.from, !.to = original.to,
                    !.id = original.id, !.error = error]

make_error_stanza_noidcheck(original, error) ==
    CASE original.kind = "Iq" ->
           MkStanza("Iq", "Error", original.to, original.from, original.id, error, "None")
      [] original.kind = "Message" ->
           IF original.type = "Error"
           THEN NoStanza
           ELSE [MessageNew(original.from) EXCEPT
                    !.from = original.to, !.id = original.id,
                    !.type = "Error", !.error = error]
      [] original.kind = "Presence" ->
           IF original.type = "Error"
           THEN NoStanza
           ELSE [PresenceNew("Error") EXCEPT
                    !.from = original.to, !.to = original.from,
                    !.id = original.id, !.error = error]

make_error_stanza(original, error) ==
    CASE original.kind = "Iq" ->
           MkStanza("Iq", "Error", original.to, original.from, original.id, error, "None")
      [] original.kind = "Message" ->
           IF original.type = "Error" \/ original.id = NoId
           THEN NoStanza
           ELSE [MessageNew(original.from) EXCEPT
                    !.from = original.to, !.id = original.id,
                    !.type = "Error", !.error = error]
      [] original.kind = "Presence" ->
           IF original.type = "Error" \/ original.id = NoId
           THEN NoStanza
           ELSE [PresenceNew("Error") EXCEPT
                    !.from = original.to, !.to = original.from,
                    !.id = original.id, !.error = error]

(***************************************************************************)
(* State.                                                                  *)
(***************************************************************************)
VARIABLES
    pending,      \* CorrelationContext.pending: id -> sender (NoSender: no entry)
    chan,         \* where the sender of each oneshot channel is
    rxval,        \* what the receiver of each oneshot channel has been sent
    nextChan,     \* the next channel oneshot::channel() creates
    outq,         \* the unbounded outbound channel (outbound_tx / outbound_rx)
    hist,         \* the calls made on the context, in order, with their results
    pc,           \* where the run loop is
    transportIn,  \* the stream of stanzas component.next() yields, in order
    nIn,          \* how many of them the loop has taken
    cur,          \* FilteredFuture.stanza: the stanza of the evaluation in flight
    ctxSet,       \* CORRELATION_CTX is set
    ambient,      \* FILTERED_STANZA is set
    woken,        \* the run task has been woken since the last Pending
    waitTok,      \* the channel the evaluation awaits (NoSender: none)
    ops,          \* context calls the filter chain has made
    polls,        \* polls of the evaluation that returned Pending
    response,     \* the output of the service future
    handed,       \* stanzas given to component.send, in order
    evlog,        \* the evaluations: start and end events, in order
    reached,      \* channels whose id came in on an inbound stanza while pending
    errIn,        \* an original stanza and a rejection (error synthesis)
    errOut,       \* the error stanza synthesised for errIn
    accRej,       \* the Rejection a chain of or branches has accumulated
    lastOp,       \* the last operation on accRej, its operands and result
    filteredStanza,   \* FILTERED_STANZA of each thread: whose cell is installed
    stack,        \* the call_stanza and poll calls each thread is inside of
    futs,         \* where each FilteredFuture is
    observed,     \* the last filtered_stanza::with of a leaf: who saw whose
    outside,      \* the last is_set() seen by other work between polls
    debug_assertions, \* the build has debug assertions
    chain,        \* a wrapped filter: its kind, what its child and callback do
    future,       \* the future of the wrapped filter, and what was seen of it
    filterIn,     \* a composed filter and the stanza it is evaluated against
    filterOut,    \* the outcome of the evaluation of filterIn
    sendErrs      \* the writes to the transport that failed and were logged

tableVars == <<pending, chan, rxval, nextChan, outq, hist>>
loopVars == <<pc, transportIn, nIn, cur, ctxSet, ambient, woken, waitTok, ops,
              polls, response, handed, evlog, reached>>
errVars == <<errIn, errOut>>
rejVars == <<accRej, lastOp>>
ambVars == <<filteredStanza, stack, futs, observed, outside, debug_assertions>>
vars == <<pending, chan, rxval, nextChan, outq, hist, pc, transportIn, nIn, cur,
          ctxSet, ambient, woken, waitTok, ops, polls, response, handed,
          evlog, reached, errIn, errOut, accRej, lastOp, filteredStanza, stack,
          futs, observed, outside, debug_assertions, chain, future, filterIn,
          filterOut, sendErrs>>
futVars == <<chain, future>>
evalVars == <<filterIn, filterOut>>
outVars == <<sendErrs>>

Chans == 1 .. MaxChan

\* no operation has been made on a rejection
NoOp == [op |-> "none"]
\* the rejection specification is not running
RejIdle ==
    /\ accRej = item_not_found
    /\ lastOp = NoOp

\* the worker threads of the runtime and the FilteredFutures alive at once
Threads == {"w1", "w2"}
Futures == 1 .. NumFutures
\* FILTERED_STANZA is not set
NoFuture == 0
\* no leaf has called filtered_stanza::with yet
NoObservation == [by |-> NoFuture, saw |-> NoFuture]
\* the ambient stanza specification is not running
AmbIdle ==
    /\ filteredStanza = [t \in Threads |-> NoFuture]
    /\ stack = [t \in Threads |-> <<>>]
    /\ futs = [e \in Futures |-> "unborn"]
    /\ observed = NoObservation
    /\ outside = "unseen"
    /\ debug_assertions = TRUE

\* no wrapped filter is under evaluation
FutIdle ==
    /\ chain = [kind |-> "none"]
    /\ future = [state |-> "none"]
\* no composed filter is under evaluation
EvalIdle ==
    /\ filterIn = <<>>
    /\ filterOut = <<>>
\* no write to the transport has failed
OutIdle == sendErrs = <<>>

(***************************************************************************)
(* The correlation context (correlation.rs).                               *)
(***************************************************************************)
\* CorrelationContext::register: insert, replacing an entry of the same id
register_keep(p, id, tx) == IF p[id] = NoSender THEN [p EXCEPT ![id] = tx] ELSE p
register(p, id, tx) == [p EXCEPT ![id] = tx]

\* CorrelationContext::take_pending: remove the entry and return its sender
take_pending_peek(p, id) == [table |-> p, tx |-> p[id]]
take_pending(p, id) == [table |-> [p EXCEPT ![id] = NoSender], tx |-> p[id]]

\* try_take_pending that takes the first entry for a stanza without id
try_take_pending_first(p, st) ==
    LET id == get_stanza_id(st)
    IN  take_pending(p, IF id = NoId THEN 1 ELSE id)
\* CorrelationContext::try_take_pending: take_pending on the id of the stanza
try_take_pending(p, st) ==
    LET id == get_stanza_id(st)
    IN  IF id = NoId THEN [table |-> p, tx |-> NoSender] ELSE take_pending(p, id)

\* the sender a register replaces is kept alive
ChanAfterRegister_leak(c, p, id, tx) ==
    [t \in DOMAIN c |-> IF t = tx THEN "table" ELSE c[t]]
\* the sender of channel tx is created and put in the table; the sender it
\* replaces is dropped
ChanAfterRegister(c, p, id, tx) ==
    [t \in DOMAIN c |->
        IF t = tx THEN "table"
        ELSE IF t = p[id] THEN "dropped"
        ELSE c[t]]

\* the sender tx leaves the table: its taker holds it
ChanAfterTake(c, tx) ==
    [t \in DOMAIN c |-> IF t = tx THEN "taken" ELSE c[t]]

Call(op, e, id, tx) == [op |-> op, ev |-> e, id |-> id, tx |-> tx]

\* stanzas the callers of the table specification pass to the context
ProbeStanzas ==
    {MkStanza("Iq", "Result", 1, 2, 1, NoError, "Some"),
     MkStanza("Presence", "None", 1, 2, NoId, NoError, "None")}

InitCommon ==
    /\ pending = [i \in Ids |-> NoSender]
    /\ chan = [t \in Chans |-> "unborn"]
    /\ rxval = [t \in Chans |-> NoStanza]
    /\ nextChan = 1
    /\ outq = <<>>
    /\ hist = <<>>
    /\ pc = "select"
    /\ transportIn = <<>>
    /\ nIn = 0
    /\ cur = NoStanza
    /\ ctxSet = FALSE
    /\ ambient = FALSE
    /\ woken = FALSE
    /\ waitTok = NoSender
    /\ ops = 0
    /\ polls = 0
    /\ response = NoStanza
    /\ handed = <<>>
    /\ evlog = <<>>
    /\ reached = {}
    /\ errOut = NoStanza
    /\ OutIdle

NoErrIn == [original |-> NoStanza, rejection |-> item_not_found, done |-> FALSE]

\* the table specification: NumEvals evaluations share one context; hist
\* records which of them made each take
InitTable == InitCommon /\ errIn = NoErrIn /\ RejIdle /\ AmbIdle /\ FutIdle /\ EvalIdle

Register(id) ==
    /\ Len(hist) < MaxCalls
    /\ nextChan <= MaxChan
    /\ pending' = register(pending, id, nextChan)
    /\ chan' = ChanAfterRegister(chan, pending, id, nextChan)
    /\ nextChan' = nextChan + 1
    /\ hist' = Append(hist, Call("register", 0, id, nextChan))
    /\ UNCHANGED <<rxval, outq>>
    /\ UNCHANGED loopVars
    /\ UNCHANGED errVars
    /\ UNCHANGED outVars
    /\ UNCHANGED futVars
    /\ UNCHANGED evalVars
    /\ UNCHANGED rejVars
    /\ UNCHANGED ambVars

TakePending(e, id) ==
    LET r == take_pending(pending, id)
    IN  /\ Len(hist) < MaxCalls
        /\ pending' = r.table
        /\ chan' = ChanAfterTake(chan, r.tx)
        /\ hist' = Append(hist, Call("take_pending", e, id, r.tx))
        /\ UNCHANGED <<rxval, nextChan, outq>>
        /\ UNCHANGED loopVars
        /\ UNCHANGED errVars
        /\ UNCHANGED outVars
        /\ UNCHANGED futVars
        /\ UNCHANGED evalVars
        /\ UNCHANGED rejVars
        /\ UNCHANGED ambVars

TryTakePending(e, st) ==
    LET r == try_take_pending(pending, st)
    IN  /\ Len(hist) < MaxCalls
        /\ pending' = r.table
        /\ chan' = ChanAfterTake(chan, r.tx)
        /\ hist' = Append(hist, Call("try_take_pending", e, get_stanza_id(st), r.tx))
        /\ UNCHANGED <<rxval, nextChan, outq>>
        /\ UNCHANGED loopVars
        /\ UNCHANGED errVars
        /\ UNCHANGED outVars
        /\ UNCHANGED futVars
        /\ UNCHANGED evalVars
        /\ UNCHANGED rejVars
        /\ UNCHANGED ambVars

\* CorrelationContext::send
Send(st) ==
    /\ Len(hist) < MaxCalls
    /\ outq' = Append(outq, st)
    /\ hist' = Append(hist, Call("send", 0, NoId, NoSender))
    /\ UNCHANGED <<pending, chan, rxval, nextChan>>
    /\ UNCHANGED loopVars
    /\ UNCHANGED errVars
    /\ UNCHANGED outVars
    /\ UNCHANGED futVars
    /\ UNCHANGED evalVars
    /\ UNCHANGED rejVars
    /\ UNCHANGED ambVars

NextTable ==
    \/ \E id \in Ids : Register(id)
    \/ \E e \in 1 .. NumEvals, id \in Ids : TakePending(e, id)
    \/ \E e \in 1 .. NumEvals, st \in ProbeStanzas : TryTakePending(e, st)
    \/ Send(MkStanza("Iq", "Get", 2, 1, 1, NoError, "Some"))

SpecTable == InitTable /\ [][NextTable]_vars

(***************************************************************************)
(* Claims on the pending table, over the history of calls.                 *)
(***************************************************************************)
TakeOps == {"take_pending", "try_take_pending"}
IsTake(i) == hist[i].op \in TakeOps /\ hist[i].id # NoId
IsRegister(i) == hist[i].op = "register"
\* the calls before call i that touch the entry of the id of call i
Before(i) == {j \in 1 .. (i - 1) : hist[j].id = hist[i].id /\ (IsTake(j) \/ IsRegister(j))}
Last(S) == CHOOSE j \in S : \A k \in S : k <= j

\* C1: take_pending(id) returns a sender only if register(id) was called with
\* no take_pending(id) since; the sender is the one that register(id) created;
\* a repeated take_pending(id) with no new register(id) returns nothing.
C1_TakeReturnsLastRegistered ==
    \A i \in 1 .. Len(hist) :
        IsTake(i) =>
            hist[i].tx = (IF Before(i) # {} /\ IsRegister(Last(Before(i)))
                          THEN hist[Last(Before(i))].tx
                          ELSE NoSender)

\* register(id), register(id) again, take_pending(id) returning the second
\* sender, take_pending(id) returning nothing
C1_Witness ==
    /\ Len(hist) >= 4
    /\ \E id \in Ids :
        /\ hist[1].op = "register" /\ hist[1].id = id
        /\ hist[2].op = "register" /\ hist[2].id = id
        /\ hist[3].op = "take_pending" /\ hist[3].id = id /\ hist[3].tx = hist[2].tx
        /\ hist[4].op = "take_pending" /\ hist[4].id = id /\ hist[4].tx = NoSender

\* the takes of the entry that register call j made, up to the next register
TakesOf(j) ==
    {i \in (j + 1) .. Len(hist) :
        /\ IsTake(i)
        /\ hist[i].id = hist[j].id
        /\ \A k \in (j + 1) .. (i - 1) : ~(IsRegister(k) /\ hist[k].id = hist[j].id)}

\* C5: of the callers that take the same pending id, exactly one obtains the
\* sender and every other one obtains nothing, whatever calls for other ids
\* come in between.
C5_ExactlyOneTaker ==
    \A j \in 1 .. Len(hist) :
        IsRegister(j) /\ TakesOf(j) # {} =>
            /\ Cardinality({i \in TakesOf(j) : hist[i].tx = hist[j].tx}) = 1
            /\ \A i \in TakesOf(j) : hist[i].tx \in {hist[j].tx, NoSender}
            /\ \A i \in 1 .. Len(hist) :
                   hist[i].op \in TakeOps /\ hist[i].tx = hist[j].tx => i \in TakesOf(j)

\* two callers take the same pending id, with a call for another id between
C5_Witness ==
    \E j, i1, k, i2 \in 1 .. Len(hist) :
        /\ j < i1 /\ i1 < k /\ k < i2
        /\ IsRegister(j)
        /\ {i1, i2} \subseteq TakesOf(j)
        /\ hist[i1].ev # hist[i2].ev
        /\ hist[k].id \notin {hist[j].id, NoId}
        /\ hist[i1].tx = hist[j].tx
        /\ hist[i2].tx = NoSender

\* the calls after call j that take the entry of its id
TakesAfter(j) == {i \in (j + 1) .. Len(hist) : IsTake(i) /\ hist[i].id = hist[j].id}
\* register call j replaced the slot register call i had made
Replaced(i, j) ==
    /\ i < j
    /\ IsRegister(i) /\ IsRegister(j)
    /\ hist[i].id = hist[j].id
    /\ \A k \in (i + 1) .. (j - 1) : hist[k].id # hist[i].id

\* C35: the table holds at most one slot per id: a register for an id that is
\* pending replaces the slot; the sender replaced is dropped, so its waiter
\* receives nothing and no take returns it, and the next take of the id
\* returns the newer sender.
C35_RegisterReplaces ==
    /\ \A t \in Chans :
           chan[t] = "table" <=> Cardinality({id \in Ids : pending[id] = t}) = 1
    /\ \A id \in Ids : pending[id] # NoSender => chan[pending[id]] = "table"
    /\ \A i, j \in 1 .. Len(hist) :
           Replaced(i, j) =>
               /\ hist[i].tx # hist[j].tx
               /\ chan[hist[i].tx] = "dropped"
               /\ rxval[hist[i].tx] = NoStanza
               /\ \A k \in 1 .. Len(hist) :
                      hist[k].op \in TakeOps => hist[k].tx # hist[i].tx
               /\ TakesAfter(j) # {} =>
                      LET k == CHOOSE k \in TakesAfter(j) : \A m \in TakesAfter(j) : k <= m
                      IN  \/ hist[k].tx = hist[j].tx
                          \/ \E r \in (j + 1) .. (k - 1) :
                                 IsRegister(r) /\ hist[r].id = hist[j].id

\* an id was registered twice and then taken: the first sender is dropped
\* and the second was returned
C35_Witness ==
    /\ Len(hist) = 3
    /\ Replaced(1, 2)
    /\ IsTake(3)
    /\ hist[3].id = hist[2].id
    /\ hist[3].tx = hist[2].tx
    /\ chan[hist[1].tx] = "dropped"
    /\ chan[hist[2].tx] = "taken"

\* C40: register(id), take_pending(id) and try_take_pending(stanza) change at
\* most the entry of that id and leave every other entry and the outbound
\* channel as they were; try_take_pending of a stanza without id removes
\* nothing and returns nothing.
C40_OnlyOwnEntryChanges ==
    [][hist' # hist =>
          LET c == hist'[Len(hist')]
          IN  /\ c.op \in {"register"} \cup TakeOps =>
                     /\ outq' = outq
                     /\ \A id \in Ids \ {c.id} : pending'[id] = pending[id]
              /\ (c.op = "try_take_pending" /\ c.id = NoId) =>
                     /\ pending' = pending
                     /\ chan' = chan
                     /\ c.tx = NoSender]_vars

\* with an entry pending and a stanza queued, try_take_pending of a presence
\* without id took nothing
C40_Witness ==
    /\ Len(hist) = 3
    /\ hist[3].op = "try_take_pending"
    /\ hist[3].id = NoId
    /\ hist[3].tx = NoSender
    /\ outq # <<>>
    /\ \E id \in Ids : pending[id] # NoSender

(***************************************************************************)
(* The run loop (server.rs) and the service future (filter/service.rs).    *)
(*                                                                         *)
(* pc: "select"        at tokio::select!                                   *)
(*     "constructing"  in correlation::set(&ctx, || svc.call_stanza(..)):  *)
(*                     the filter builds its future                        *)
(*     "awaiting"      at .await of the FilteredFuture, between polls      *)
(*     "polling"       in FilteredFuture::poll                             *)
(*     "replying"      the response is ready, before component.send        *)
(*     "panicked"      the run task has unwound                            *)
(***************************************************************************)
\* stanzas the transport delivers
RunStanzas ==
    {MkStanza("Iq", "Result", 1, 2, 1, NoError, "Some"),
     MkStanza("Message", "Normal", 1, NoJid, MaxId, NoError, "Some"),
     MkStanza("Presence", "None", 1, 2, NoId, NoError, "None")}

\* the ids of these stanzas: the ids the filter chain registers and takes
RunIds == {get_stanza_id(st) : st \in RunStanzas} \ {NoId}

\* rejections the filter chain ends with
RunRejections == {item_not_found, known("Forbidden")}

\* a request the filter chain sends to another entity
Request(id) == MkStanza("Iq", "Get", 2, 1, id, NoError, "Some")

\* filters::stanza::reply: a message back to the sender of the stanza
reply(st) == [MessageNew(st.from) EXCEPT !.from = st.to, !.payload = "Some"]

\* the replies the filter chain ends with: sink() or reply(body)
RunReplies(st) == {NoStanza, reply(st)}

\* FilteredFuture::poll on Ready(Err(err))
PollErrDropped(st, rej) == NoStanza
PollErr(st, rej) == make_error_stanza(st, into_stanza_error(rej))

\* the branches tokio::select! polls: only at the top of the loop
SelectAlsoAwaiting == pc \in {"select", "awaiting"}
SelectOrClosed == pc \in {"select", "closed"}
SelectOrHandling == pc \in {"select", "handling"}
AtSelect == pc = "select"

\* oneshot: the receiver of channel t has a value or its sender is gone
Resolved(t) == rxval[t] # NoStanza \/ chan[t] = "dropped"

Ev(e, n, st, o, rej, resp) ==
    [ev |-> e, n |-> n, st |-> st, outcome |-> o, rejection |-> rej, resp |-> resp]
Handed(src, n, st) == [src |-> src, n |-> n, st |-> st]

\* the streams of stanzas the transport delivers
RECURSIVE SeqsUpTo(_, _)
SeqsUpTo(S, n) ==
    IF n = 0 THEN {<<>>}
    ELSE LET shorter == SeqsUpTo(S, n - 1)
         IN  shorter \cup {Append(q, x) : q \in shorter, x \in S}

InitLoop ==
    /\ pending = [i \in Ids |-> NoSender]
    /\ chan = [t \in Chans |-> "unborn"]
    /\ rxval = [t \in Chans |-> NoStanza]
    /\ nextChan = 1
    /\ outq = <<>>
    /\ hist = <<>>
    /\ pc = "select"
    /\ transportIn \in SeqsUpTo(RunStanzas, MaxInbound)
    /\ nIn = 0
    /\ cur = NoStanza
    /\ ctxSet = FALSE
    /\ ambient = FALSE
    /\ woken = FALSE
    /\ waitTok = NoSender
    /\ ops = 0
    /\ polls = 0
    /\ response = NoStanza
    /\ handed = <<>>
    /\ evlog = <<>>
    /\ reached = {}
    /\ errOut = NoStanza
    /\ OutIdle

Init == InitLoop /\ errIn = NoErrIn /\ RejIdle /\ AmbIdle /\ FutIdle /\ EvalIdle

\* the inbound branch with the short-circuit the source has commented out: a
\* stanza whose id is pending goes to its waiter and is not evaluated
RecvInbound_shortcircuit ==
    /\ AtSelect
    /\ nIn < Len(transportIn)
    /\ LET st == transportIn[nIn + 1]
           r == try_take_pending(pending, st)
       IN  /\ nIn' = nIn + 1
           /\ IF r.tx # NoSender
              THEN /\ pending' = r.table
                   /\ chan' = [t \in DOMAIN chan |-> IF t = r.tx THEN "sent" ELSE chan[t]]
                   /\ rxval' = [t \in DOMAIN rxval |-> IF t = r.tx THEN st ELSE rxval[t]]
                   /\ UNCHANGED <<pc, cur, ctxSet, ambient, evlog>>
              ELSE /\ cur' = st
                   /\ evlog' = Append(evlog, Ev("start", nIn + 1, st, "", item_not_found, NoStanza))
                   /\ pc' = "constructing"
                   /\ ctxSet' = TRUE
                   /\ ambient' = TRUE
                   /\ UNCHANGED <<pending, chan, rxval>>
    /\ polls' = 0
    /\ waitTok' = NoSender
    /\ UNCHANGED <<transportIn, woken, ops, response, handed, reached>>
    /\ UNCHANGED <<nextChan, outq, hist>>
    /\ UNCHANGED errVars
    /\ UNCHANGED outVars
    /\ UNCHANGED futVars
    /\ UNCHANGED evalVars
    /\ UNCHANGED rejVars
    /\ UNCHANGED ambVars

\* select! takes the inbound branch: component.next() yields a stanza, the
\* context is set and call_stanza installs the stanza and calls filter()
RecvInbound ==
    /\ AtSelect
    /\ nIn < Len(transportIn)
    /\ LET st == transportIn[nIn + 1]
           id == get_stanza_id(st)
       IN  /\ nIn' = nIn + 1
           /\ cur' = st
           /\ evlog' = Append(evlog, Ev("start", nIn + 1, st, "", item_not_found, NoStanza))
           /\ reached' = IF id # NoId /\ pending[id] # NoSender
                         THEN reached \cup {pending[id]}
                         ELSE reached
    /\ pc' = "constructing"
    /\ ctxSet' = TRUE
    /\ ambient' = TRUE
    /\ polls' = 0
    /\ waitTok' = NoSender
    /\ UNCHANGED <<transportIn, woken, ops, response, handed>>
    /\ UNCHANGED tableVars
    /\ UNCHANGED errVars
    /\ UNCHANGED outVars
    /\ UNCHANGED futVars
    /\ UNCHANGED evalVars
    /\ UNCHANGED rejVars
    /\ UNCHANGED ambVars

\* a leaf of the chain calls correlation::with(|c| c.register(id)) while the
\* future is built; the chain awaits the receiver or hands it to another task
LeafRegister(id, awaitIt) ==
    /\ pc = "constructing"
    /\ ctxSet
    /\ ops < MaxOps
    /\ nextChan <= MaxChan
    /\ pending' = register(pending, id, nextChan)
    /\ chan' = ChanAfterRegister(chan, pending, id, nextChan)
    /\ nextChan' = nextChan + 1
    /\ waitTok' = IF awaitIt /\ waitTok = NoSender THEN nextChan ELSE waitTok
    /\ ops' = ops + 1
    /\ UNCHANGED <<rxval, outq, hist>>
    /\ UNCHANGED <<pc, transportIn, nIn, cur, ctxSet, ambient, woken, polls,
                   response, handed, evlog, reached>>
    /\ UNCHANGED errVars
    /\ UNCHANGED outVars
    /\ UNCHANGED futVars
    /\ UNCHANGED evalVars
    /\ UNCHANGED rejVars
    /\ UNCHANGED ambVars

\* the sender r.tx was taken from the table and is sent the current stanza
Deliver(r) ==
    /\ pending' = r.table
    /\ chan' = [t \in DOMAIN chan |-> IF t = r.tx THEN "sent" ELSE chan[t]]
    /\ rxval' = [t \in DOMAIN rxval |-> IF t = r.tx THEN cur ELSE rxval[t]]

\* a leaf calls take_pending(id) and routes the current stanza to the waiter
LeafTakePending(id) ==
    /\ pc = "constructing"
    /\ ctxSet
    /\ ops < MaxOps
    /\ Deliver(take_pending(pending, id))
    /\ ops' = ops + 1
    /\ UNCHANGED <<nextChan, outq, hist>>
    /\ UNCHANGED <<pc, transportIn, nIn, cur, ctxSet, ambient, woken, waitTok,
                   polls, response, handed, evlog, reached>>
    /\ UNCHANGED errVars
    /\ UNCHANGED outVars
    /\ UNCHANGED futVars
    /\ UNCHANGED evalVars
    /\ UNCHANGED rejVars
    /\ UNCHANGED ambVars

\* a leaf calls try_take_pending(stanza) on the current stanza
LeafTryTakePending ==
    /\ pc = "constructing"
    /\ ctxSet
    /\ ops < MaxOps
    /\ Deliver(try_take_pending(pending, cur))
    /\ ops' = ops + 1
    /\ UNCHANGED <<nextChan, outq, hist>>
    /\ UNCHANGED <<pc, transportIn, nIn, cur, ctxSet, ambient, woken, waitTok,
                   polls, response, handed, evlog, reached>>
    /\ UNCHANGED errVars
    /\ UNCHANGED outVars
    /\ UNCHANGED futVars
    /\ UNCHANGED evalVars
    /\ UNCHANGED rejVars
    /\ UNCHANGED ambVars

\* a leaf calls correlation::with(|c| c.send(stanza))
LeafSend(st) ==
    /\ pc = "constructing"
    /\ ctxSet
    /\ ops < MaxOps
    /\ outq' = Append(outq, st)
    /\ ops' = ops + 1
    /\ UNCHANGED <<pending, chan, rxval, nextChan, hist>>
    /\ UNCHANGED <<pc, transportIn, nIn, cur, ctxSet, ambient, woken, waitTok,
                   polls, response, handed, evlog, reached>>
    /\ UNCHANGED errVars
    /\ UNCHANGED outVars
    /\ UNCHANGED futVars
    /\ UNCHANGED evalVars
    /\ UNCHANGED rejVars
    /\ UNCHANGED ambVars

\* filter() returns the future: filtered_stanza::set and correlation::set
\* return, and the loop awaits the future
ConstructDone ==
    /\ pc = "constructing"
    /\ pc' = "awaiting"
    /\ ctxSet' = FALSE
    /\ ambient' = FALSE
    /\ woken' = TRUE
    /\ UNCHANGED <<transportIn, nIn, cur, waitTok, ops, polls, response, handed,
                   evlog, reached>>
    /\ UNCHANGED tableVars
    /\ UNCHANGED errVars
    /\ UNCHANGED outVars
    /\ UNCHANGED futVars
    /\ UNCHANGED evalVars
    /\ UNCHANGED rejVars
    /\ UNCHANGED ambVars

\* the run task is polled: FilteredFuture::poll installs the stanza
PollBegin ==
    /\ pc = "awaiting"
    /\ woken
    /\ ~ambient
    /\ pc' = "polling"
    /\ ambient' = TRUE
    /\ woken' = FALSE
    /\ UNCHANGED <<transportIn, nIn, cur, ctxSet, waitTok, ops, polls, response,
                   handed, evlog, reached>>
    /\ UNCHANGED tableVars
    /\ UNCHANGED errVars
    /\ UNCHANGED outVars
    /\ UNCHANGED futVars
    /\ UNCHANGED evalVars
    /\ UNCHANGED rejVars
    /\ UNCHANGED ambVars

\* a leaf polled now (the second of an and, the callback of an or_else) calls
\* correlation::with: the scoped thread local is not set and with() panics
PollWith ==
    /\ pc = "polling"
    /\ ~ctxSet
    /\ pc' = "panicked"
    /\ ambient' = FALSE
    /\ UNCHANGED <<transportIn, nIn, cur, ctxSet, woken, waitTok, ops, polls,
                   response, handed, evlog, reached>>
    /\ UNCHANGED tableVars
    /\ UNCHANGED errVars
    /\ UNCHANGED outVars
    /\ UNCHANGED futVars
    /\ UNCHANGED evalVars
    /\ UNCHANGED rejVars
    /\ UNCHANGED ambVars

\* the poll returns Pending: the chain awaits a receiver that has nothing yet,
\* or something outside (a timer, I/O)
PollPending ==
    /\ pc = "polling"
    /\ IF waitTok # NoSender THEN ~Resolved(waitTok) ELSE polls < MaxPolls
    /\ pc' = "awaiting"
    /\ ambient' = FALSE
    /\ polls' = IF waitTok # NoSender THEN polls ELSE polls + 1
    /\ UNCHANGED <<transportIn, nIn, cur, ctxSet, woken, waitTok, ops, response,
                   handed, evlog, reached>>
    /\ UNCHANGED tableVars
    /\ UNCHANGED errVars
    /\ UNCHANGED outVars
    /\ UNCHANGED futVars
    /\ UNCHANGED evalVars
    /\ UNCHANGED rejVars
    /\ UNCHANGED ambVars

\* what the evaluation awaited outside happens and wakes the run task
Wake ==
    /\ pc = "awaiting"
    /\ ~woken
    /\ waitTok = NoSender
    /\ woken' = TRUE
    /\ UNCHANGED <<pc, transportIn, nIn, cur, ctxSet, ambient, waitTok, ops,
                   polls, response, handed, evlog, reached>>
    /\ UNCHANGED tableVars
    /\ UNCHANGED errVars
    /\ UNCHANGED outVars
    /\ UNCHANGED futVars
    /\ UNCHANGED evalVars
    /\ UNCHANGED rejVars
    /\ UNCHANGED ambVars

\* the poll returns Ready(Ok(reply)): the response is reply.into_response()
PollReadyOk(r) ==
    /\ pc = "polling"
    /\ waitTok # NoSender => Resolved(waitTok)
    /\ pc' = "replying"
    /\ ambient' = FALSE
    /\ response' = r
    /\ evlog' = Append(evlog, Ev("end", nIn, cur, "ok", item_not_found, r))
    /\ UNCHANGED <<transportIn, nIn, cur, ctxSet, woken, waitTok, ops, polls,
                   handed, reached>>
    /\ UNCHANGED tableVars
    /\ UNCHANGED errVars
    /\ UNCHANGED outVars
    /\ UNCHANGED futVars
    /\ UNCHANGED evalVars
    /\ UNCHANGED rejVars
    /\ UNCHANGED ambVars

\* the poll returns Ready(Err(rejection)): the response is the error stanza
PollReadyErr(rej) ==
    /\ pc = "polling"
    /\ waitTok # NoSender => Resolved(waitTok)
    /\ pc' = "replying"
    /\ ambient' = FALSE
    /\ response' = PollErr(cur, rej)
    /\ evlog' = Append(evlog, Ev("end", nIn, cur, "err", rej, PollErr(cur, rej)))
    /\ UNCHANGED <<transportIn, nIn, cur, ctxSet, woken, waitTok, ops, polls,
                   handed, reached>>
    /\ UNCHANGED tableVars
    /\ UNCHANGED errVars
    /\ UNCHANGED outVars
    /\ UNCHANGED futVars
    /\ UNCHANGED evalVars
    /\ UNCHANGED rejVars
    /\ UNCHANGED ambVars

\* the reply is given to the transport whatever it is
SendReply_always ==
    /\ pc = "replying"
    /\ handed' = Append(handed, Handed("reply", nIn, response))
    /\ pc' = "select"
    /\ cur' = NoStanza
    /\ response' = NoStanza
    /\ waitTok' = NoSender
    /\ UNCHANGED <<transportIn, nIn, ctxSet, ambient, woken, ops, polls, evlog, reached>>
    /\ UNCHANGED tableVars
    /\ UNCHANGED errVars
    /\ UNCHANGED outVars
    /\ UNCHANGED futVars
    /\ UNCHANGED evalVars
    /\ UNCHANGED rejVars
    /\ UNCHANGED ambVars

\* if let Ok(Some(reply)) = response: component.send(reply), whose failure is
\* only logged; then back to select!
SendReply ==
    /\ pc = "replying"
    /\ handed' = IF response # NoStanza
                 THEN Append(handed, Handed("reply", nIn, response))
                 ELSE handed
    /\ pc' = "select"
    /\ cur' = NoStanza
    /\ response' = NoStanza
    /\ waitTok' = NoSender
    /\ UNCHANGED <<transportIn, nIn, ctxSet, ambient, woken, ops, polls, evlog, reached>>
    /\ UNCHANGED tableVars
    /\ UNCHANGED errVars
    /\ UNCHANGED outVars
    /\ UNCHANGED futVars
    /\ UNCHANGED evalVars
    /\ UNCHANGED rejVars
    /\ UNCHANGED ambVars

\* select! takes the outbound branch: outbound_rx.recv() yields a stanza and
\* component.send(outbound) writes it; a failure is only logged
DrainOutbound ==
    /\ AtSelect
    /\ outq # <<>>
    /\ handed' = Append(handed, Handed("outbound", 0, Head(outq)))
    /\ outq' = Tail(outq)
    /\ UNCHANGED <<pending, chan, rxval, nextChan, hist>>
    /\ UNCHANGED <<pc, transportIn, nIn, cur, ctxSet, ambient, woken, waitTok,
                   ops, polls, response, evlog, reached>>
    /\ UNCHANGED errVars
    /\ UNCHANGED outVars
    /\ UNCHANGED futVars
    /\ UNCHANGED evalVars
    /\ UNCHANGED rejVars
    /\ UNCHANGED ambVars

\* select! takes the inbound branch and component.next() yields None: the
\* stream is closed and expect() panics
RecvClosed ==
    /\ AtSelect
    /\ nIn = Len(transportIn)
    /\ pc' = "closed"
    /\ UNCHANGED <<transportIn, nIn, cur, ctxSet, ambient, woken, waitTok, ops,
                   polls, response, handed, evlog, reached>>
    /\ UNCHANGED tableVars
    /\ UNCHANGED errVars
    /\ UNCHANGED outVars
    /\ UNCHANGED futVars
    /\ UNCHANGED evalVars
    /\ UNCHANGED rejVars
    /\ UNCHANGED ambVars

\* the steps of the run task
LoopStep ==
    \/ RecvInbound
    \/ \E id \in RunIds, awaitIt \in BOOLEAN : LeafRegister(id, awaitIt)
    \/ \E id \in RunIds : LeafTakePending(id)
    \/ LeafTryTakePending
    \/ LeafSend(Request(1))
    \/ ConstructDone
    \/ PollBegin
    \/ PollWith
    \/ PollPending
    \/ \E r \in RunReplies(cur) : PollReadyOk(r)
    \/ \E rej \in RunRejections : PollReadyErr(rej)
    \/ SendReply
    \/ DrainOutbound

\* the run task, what it waits for outside, and the transport closing
Next ==
    \/ Wake
    \/ LoopStep
    \/ RecvClosed

Spec == Init /\ [][Next]_vars

\* the executor runs the run task whenever it can take a step, and what an
\* evaluation awaits outside (a timer, I/O) eventually happens
FairSpec == Spec /\ WF_vars(LoopStep) /\ WF_vars(Wake)

(***************************************************************************)
(* Claims on the run loop.                                                 *)
(***************************************************************************)
\* stanzas from the outbound channel that were given to the transport
OutboundHanded == Len(SelectSeq(handed, LAMBDA h : h.src = "outbound"))

\* C2: once id X is registered and an inbound stanza with id X reaches the run
\* loop, the waiter of that register eventually receives the stanza (unless
\* the run task has died).
C2_WaiterEventuallyReceives ==
    \A t \in Chans : (t \in reached) ~> (rxval[t] # NoStanza \/ pc = "panicked")

\* C3: a stanza enqueued with send() while an evaluation is in flight is
\* written to the transport without waiting for the evaluation to finish
\* (unless the run task has died).
C3_OutboundNotBlockedByEvaluation ==
    \A k \in 0 .. MaxOps :
        (pc = "awaiting" /\ ~woken /\ outq # <<>> /\ OutboundHanded = k)
            ~> (OutboundHanded > k \/ pc = "panicked")

\* C4: the correlation context is installed during the whole evaluation:
\* while the future is built and at every poll.
C4_ContextSetDuringEvaluation ==
    pc \in {"constructing", "polling"} => ctxSet

\* C6: inbound stanzas are evaluated one at a time, in the order the
\* transport delivers them: an evaluation starts only after the previous one
\* has ended, and the k-th evaluation is of the k-th stanza.
C6_OneEvaluationAtATimeInOrder ==
    \A i \in 1 .. Len(evlog) :
        IF i % 2 = 1
        THEN /\ evlog[i].ev = "start"
             /\ evlog[i].n = (i + 1) \div 2
             /\ evlog[i].st = transportIn[evlog[i].n]
        ELSE /\ evlog[i].ev = "end"
             /\ evlog[i].n = evlog[i - 1].n
             /\ evlog[i].st = evlog[i - 1].st

\* the first evaluation is suspended while the next stanza is already there
C6_Witness ==
    /\ pc = "awaiting"
    /\ ~woken
    /\ nIn = 1
    /\ Len(transportIn) > 1
    /\ Len(evlog) = 1

\* Message and Presence that are error-typed or carry no id get no error reply
Suppressed(st) ==
    st.kind \in {"Message", "Presence"} /\ (st.type = "Error" \/ st.id = NoId)

\* C7: an evaluation that ends in a rejection yields an error stanza that the
\* loop gives to the transport, except for a suppressed Message or Presence,
\* for which nothing is given.
C7_RejectionYieldsErrorReply ==
    \A i \in 1 .. Len(evlog) :
        evlog[i].ev = "end" /\ evlog[i].outcome = "err" =>
            IF Suppressed(evlog[i].st)
            THEN /\ evlog[i].resp = NoStanza
                 /\ \A j \in 1 .. Len(handed) :
                        ~(handed[j].src = "reply" /\ handed[j].n = evlog[i].n)
            ELSE /\ evlog[i].resp # NoStanza
                 /\ evlog[i].resp.type = "Error"
                 /\ evlog[i].resp.error # NoError
                 /\ \/ pc = "replying" /\ nIn = evlog[i].n /\ response = evlog[i].resp
                    \/ \E j \in 1 .. Len(handed) :
                           handed[j] = Handed("reply", evlog[i].n, evlog[i].resp)

\* a rejected IQ was answered and a rejected presence without id was not
C7_Witness ==
    /\ Len(evlog) = 4
    /\ pc = "select"
    /\ evlog[2].outcome = "err" /\ evlog[2].st.kind = "Iq"
    /\ evlog[4].outcome = "err" /\ Suppressed(evlog[4].st)
    /\ Len(handed) = 1
    /\ handed[1].st.type = "Error"

StartsOf(n) == {i \in 1 .. Len(evlog) : evlog[i].ev = "start" /\ evlog[i].n = n}
EndsOf(n) == {i \in 1 .. Len(evlog) : evlog[i].ev = "end" /\ evlog[i].n = n}
RepliesOf(n) == {j \in 1 .. Len(handed) : handed[j].src = "reply" /\ handed[j].n = n}

\* C31: each inbound stanza the loop takes starts exactly one evaluation, and
\* at most one stanza, the response of that evaluation, is given to the
\* transport for it; a response of None gives nothing.
C31_OneEvaluationOneReply ==
    /\ \A i \in 1 .. Len(evlog) : evlog[i].n \in 1 .. nIn
    /\ \A j \in 1 .. Len(handed) : handed[j].src = "reply" => handed[j].n \in 1 .. nIn
    /\ \A n \in 1 .. nIn :
           /\ Cardinality(StartsOf(n)) = 1
           /\ Cardinality(EndsOf(n)) <= 1
           /\ Cardinality(RepliesOf(n)) <= 1
           /\ \A j \in RepliesOf(n) :
                  /\ handed[j].st # NoStanza
                  /\ \E i \in EndsOf(n) : evlog[i].resp = handed[j].st
           /\ \A i \in EndsOf(n) :
                  evlog[i].resp = NoStanza => RepliesOf(n) = {}
           /\ \A i \in EndsOf(n) :
                  (evlog[i].resp # NoStanza /\ ~(pc = "replying" /\ nIn = n)) =>
                      RepliesOf(n) # {}

\* the first stanza was answered with None and nothing was given for it; the
\* second was answered and its reply given
C31_Witness ==
    /\ pc = "select"
    /\ nIn = 2
    /\ Len(evlog) = 4
    /\ evlog[2].resp = NoStanza
    /\ evlog[4].resp # NoStanza
    /\ RepliesOf(1) = {}
    /\ Cardinality(RepliesOf(2)) = 1

(***************************************************************************)
(* The writes of the run loop (server.rs): the stanzas a chain enqueues    *)
(* with send() while an inbound stanza is handled, the reply, and what     *)
(* component.send returns for each.                                        *)
(***************************************************************************)
\* the k-th stanza enqueued with send()
Outbound(k) == MkStanza("Iq", "Get", 2, 1, k, NoError, "Some")

\* outbound_rx.recv(): the channel yields what was enqueued first
recv_last(q) == [st |-> q[Len(q)], rest |-> SubSeq(q, 1, Len(q) - 1)]
recv(q) == [st |-> Head(q), rest |-> Tail(q)]

\* if let Err(err) = component.send(..): the error is logged and the stanza
\* is gone
AfterSendErr_requeue(q, st) == Append(q, st)
AfterSendErr(q, st) == q

\* the responses an evaluation ends with: None, a reply, an error reply
OutResponses == {"none", "reply", "error"}
OutResponseOf(r, st) ==
    CASE r = "none" -> NoStanza
      [] r = "reply" -> reply(st)
      [] r = "error" -> PollErr(st, item_not_found)

\* the stanzas the transport delivers while the writes are observed
OutStanzas == {MkStanza("Iq", "Get", 1, 2, 1, NoError, "Some")}

InitOut ==
    /\ pending = [i \in Ids |-> NoSender]
    /\ chan = [t \in Chans |-> "unborn"]
    /\ rxval = [t \in Chans |-> NoStanza]
    /\ nextChan = 1
    /\ outq = <<>>
    /\ hist = <<>>
    /\ pc = "select"
    /\ transportIn \in SeqsUpTo(OutStanzas, MaxInbound)
    /\ nIn = 0
    /\ cur = NoStanza
    /\ ctxSet = FALSE
    /\ ambient = FALSE
    /\ woken = FALSE
    /\ waitTok = NoSender
    /\ ops = 0
    /\ polls = 0
    /\ response = NoStanza
    /\ handed = <<>>
    /\ evlog = <<>>
    /\ reached = {}
    /\ errOut = NoStanza
    /\ OutIdle
    /\ errIn = NoErrIn
    /\ RejIdle
    /\ AmbIdle
    /\ FutIdle
    /\ EvalIdle

\* select! takes the inbound branch and the stanza is handed to the chain
OutInbound ==
    /\ AtSelect
    /\ nIn < Len(transportIn)
    /\ nIn' = nIn + 1
    /\ cur' = transportIn[nIn + 1]
    /\ pc' = "handling"
    /\ UNCHANGED <<transportIn, ctxSet, ambient, woken, waitTok, ops, polls,
                   response, handed, evlog, reached>>
    /\ UNCHANGED tableVars
    /\ UNCHANGED errVars
    /\ UNCHANGED outVars
    /\ UNCHANGED rejVars
    /\ UNCHANGED ambVars
    /\ UNCHANGED futVars
    /\ UNCHANGED evalVars

\* a leaf of the chain calls correlation::with(|c| c.send(stanza))
OutSend ==
    /\ pc = "handling"
    /\ Len(hist) < MaxOps
    /\ outq' = Append(outq, Outbound(Len(hist) + 1))
    /\ hist' = Append(hist, Call("send", nIn, Len(hist) + 1, NoSender))
    /\ UNCHANGED <<pending, chan, rxval, nextChan>>
    /\ UNCHANGED loopVars
    /\ UNCHANGED errVars
    /\ UNCHANGED outVars
    /\ UNCHANGED rejVars
    /\ UNCHANGED ambVars
    /\ UNCHANGED futVars
    /\ UNCHANGED evalVars

\* the await of the service future returns its response
OutResponse(r) ==
    /\ pc = "handling"
    /\ response' = OutResponseOf(r, cur)
    /\ evlog' = Append(evlog, Ev("end", nIn, cur, "", item_not_found,
                                 OutResponseOf(r, cur)))
    /\ pc' = "replying"
    /\ UNCHANGED <<transportIn, nIn, cur, ctxSet, ambient, woken, waitTok, ops,
                   polls, handed, reached>>
    /\ UNCHANGED tableVars
    /\ UNCHANGED errVars
    /\ UNCHANGED outVars
    /\ UNCHANGED rejVars
    /\ UNCHANGED ambVars
    /\ UNCHANGED futVars
    /\ UNCHANGED evalVars

\* if let Ok(Some(reply)) = response: component.send(reply) returns Ok or Err
OutWriteReply(ok) ==
    /\ pc = "replying"
    /\ response = NoStanza => ok
    /\ handed' = IF response # NoStanza
                 THEN Append(handed, Handed("reply", nIn, response))
                 ELSE handed
    /\ sendErrs' = IF ok THEN sendErrs ELSE Append(sendErrs, Len(handed) + 1)
    /\ outq' = IF ok THEN outq ELSE AfterSendErr(outq, response)
    /\ pc' = "select"
    /\ cur' = NoStanza
    /\ response' = NoStanza
    /\ UNCHANGED <<transportIn, nIn, ctxSet, ambient, woken, waitTok, ops, polls,
                   evlog, reached>>
    /\ UNCHANGED <<pending, chan, rxval, nextChan, hist>>
    /\ UNCHANGED errVars
    /\ UNCHANGED rejVars
    /\ UNCHANGED ambVars
    /\ UNCHANGED futVars
    /\ UNCHANGED evalVars

\* select! takes the outbound branch: component.send(outbound) returns Ok or
\* Err
OutWriteOutbound(ok) ==
    /\ AtSelect
    /\ outq # <<>>
    /\ handed' = Append(handed, Handed("outbound", 0, recv(outq).st))
    /\ sendErrs' = IF ok THEN sendErrs ELSE Append(sendErrs, Len(handed) + 1)
    /\ outq' = IF ok THEN recv(outq).rest
               ELSE AfterSendErr(recv(outq).rest, recv(outq).st)
    /\ UNCHANGED <<pending, chan, rxval, nextChan, hist>>
    /\ UNCHANGED <<pc, transportIn, nIn, cur, ctxSet, ambient, woken, waitTok,
                   ops, polls, response, evlog, reached>>
    /\ UNCHANGED errVars
    /\ UNCHANGED rejVars
    /\ UNCHANGED ambVars
    /\ UNCHANGED futVars
    /\ UNCHANGED evalVars

NextOut ==
    \/ OutInbound
    \/ OutSend
    \/ \E r \in OutResponses : OutResponse(r)
    \/ \E ok \in BOOLEAN : OutWriteReply(ok)
    \/ \E ok \in BOOLEAN : OutWriteOutbound(ok)

SpecOut == InitOut /\ [][NextOut]_vars

\* the stanzas written from the outbound channel, in the order of the writes
OutboundWritten == SelectSeq(handed, LAMBDA h : h.src = "outbound")
\* the positions in handed of the writes from the outbound channel
OutboundAt == {j \in 1 .. Len(handed) : handed[j].src = "outbound"}
\* the inbound stanza during whose handling the k-th send() was made
EnqueuedDuring(k) == hist[k].ev

\* C32: the stanzas enqueued with send() are written in the order they were
\* enqueued: what has been written from the outbound channel, followed by what
\* still waits in it, is the sequence of the sends in the order they were
\* made, so of two sends a then b, b is never written before a.
C32_SendsWrittenInOrder ==
    /\ [i \in 1 .. Len(OutboundWritten) |-> OutboundWritten[i].st] \o outq
         = [k \in 1 .. Len(hist) |-> Outbound(k)]
    /\ \A i, j \in OutboundAt :
         handed[i].st.id < handed[j].st.id => i < j

\* two sends were written in their order, with a reply written between them
C32_Witness ==
    /\ Len(OutboundWritten) = 2
    /\ OutboundWritten[1].st = Outbound(1)
    /\ OutboundWritten[2].st = Outbound(2)
    /\ \E i, j, k \in 1 .. Len(handed) :
         /\ i < j
         /\ j < k
         /\ handed[i].src = "outbound"
         /\ handed[j].src = "reply"
         /\ handed[k].src = "outbound"

\* C36: a stanza enqueued with send() while inbound stanza N is handled is
\* written only once the handling of N is over, and after the reply (or error
\* reply) to N when the evaluation of N ended with one.
C36_ReplyBeforeSendsOfSameHandling ==
    \A j \in OutboundAt :
        LET n == EnqueuedDuring(handed[j].st.id) IN
            /\ ~(pc # "select" /\ nIn = n)
            /\ \A e \in EndsOf(n) :
                 evlog[e].resp # NoStanza =>
                     \E i \in RepliesOf(n) : i < j /\ handed[i].st = evlog[e].resp

\* a reply and an error reply were each written before a stanza that was
\* enqueued while the stanza they answer was handled
C36_Witness ==
    \E j1, j2 \in OutboundAt :
        /\ j1 < j2
        /\ EnqueuedDuring(handed[j1].st.id) = 1
        /\ EnqueuedDuring(handed[j2].st.id) = 2
        /\ \E i \in RepliesOf(1) : i < j1 /\ handed[i].st = reply(transportIn[1])
        /\ \E i \in RepliesOf(2) : i < j2 /\ handed[i].st.type = "Error"

\* the writes that failed
FailedAt == {sendErrs[k] : k \in 1 .. Len(sendErrs)}

\* C37: a failed write of a reply or of an outbound stanza is only logged: the
\* loop is back at select!, the stanza is not put back on the outbound
\* channel, and no stanza is written a second time.
C37_FailedWriteOnlyLogged ==
    /\ [](\A i, j \in 1 .. Len(handed) :
            (i # j /\ handed[i].src = handed[j].src) =>
                IF handed[i].src = "reply"
                THEN handed[i].n # handed[j].n
                ELSE handed[i].st # handed[j].st)
    /\ [][sendErrs' # sendErrs =>
            /\ pc' = "select"
            /\ Len(handed') = Len(handed) + 1
            /\ sendErrs' = Append(sendErrs, Len(handed'))
            /\ outq' = IF handed'[Len(handed')].src = "reply"
                       THEN outq
                       ELSE Tail(outq)
            /\ hist' = hist]_vars

\* the write of a reply and the write of an outbound stanza both failed, and
\* the loop went on to write another stanza and to handle another inbound one
C37_Witness ==
    /\ \E a, b \in FailedAt :
         /\ handed[a].src = "reply"
         /\ handed[b].src = "outbound"
         /\ a < Len(handed)
         /\ b < Len(handed)
         /\ Len(handed) \notin FailedAt
    /\ pc = "handling"
    /\ nIn = 2

(***************************************************************************)
(* Synthesis of error stanzas, for every stanza and rejection.             *)
(***************************************************************************)
\* the causes a rejection is made of
ErrLeaves ==
    {item_not_found} \cup {known(k) : k \in Known} \cup {custom(c) : c \in Customs}
\* the rejections a chain ends with: a cause, or two causes combined by an or
ErrRejections == {combine(a, b) : a \in ErrLeaves, b \in {item_not_found, known("BadRequest"), custom("Right")}}

InitErr ==
    /\ InitCommon
    /\ errIn \in [original : Stanzas, rejection : ErrRejections, done : {FALSE}]
    /\ RejIdle
    /\ AmbIdle
    /\ FutIdle
    /\ EvalIdle

\* FilteredFuture::poll on Ready(Err(err)) for the stanza and rejection drawn
Synthesize ==
    /\ ~errIn.done
    /\ errOut' = PollErr(errIn.original, errIn.rejection)
    /\ errIn' = [errIn EXCEPT !.done = TRUE]
    /\ UNCHANGED tableVars
    /\ UNCHANGED outVars
    /\ UNCHANGED loopVars
    /\ UNCHANGED rejVars
    /\ UNCHANGED ambVars
    /\ UNCHANGED futVars
    /\ UNCHANGED evalVars

NextErr == Synthesize

SpecErr == InitErr /\ [][NextErr]_vars

\* C8: for an IQ of any type the error stanza is an Error IQ with the id of
\* the original, from and to swapped (each possibly absent) and no payload.
C8_IqErrorReply ==
    errIn.done /\ errIn.original.kind = "Iq" =>
        /\ errOut.kind = "Iq"
        /\ errOut.type = "Error"
        /\ errOut.id = errIn.original.id
        /\ errOut.from = errIn.original.to
        /\ errOut.to = errIn.original.from
        /\ errOut.payload = "None"
        /\ errOut.error # NoError

\* an IQ that is itself an error, without a from address, is answered
C8_Witness ==
    /\ errIn.done
    /\ errIn.original.kind = "Iq"
    /\ errIn.original.type = "Error"
    /\ errIn.original.from = NoJid
    /\ errIn.original.to # NoJid
    /\ errOut.from # NoJid
    /\ errOut.to = NoJid

\* C9: for a Message or Presence a reply is produced if and only if the
\* original is not error-typed and has an id.
C9_ReplyIffNotErrorAndHasId ==
    errIn.done /\ errIn.original.kind \in {"Message", "Presence"} =>
        (errOut # NoStanza <=>
            (errIn.original.type # "Error" /\ errIn.original.id # NoId))

\* a presence without id is rejected and nothing is produced
C9_Witness ==
    /\ errIn.done
    /\ errIn.original.kind = "Presence"
    /\ errIn.original.type # "Error"
    /\ errIn.original.id = NoId
    /\ errOut = NoStanza

\* C10: the error reply to a Message or Presence has type Error, the kind and
\* id of the original, from and to swapped, and the resolved error: a cause
\* Forbidden gives condition forbidden and error type auth.
C10_ErrorReplyFields ==
    errIn.done /\ errIn.original.kind \in {"Message", "Presence"} /\ errOut # NoStanza =>
        /\ errOut.kind = errIn.original.kind
        /\ errOut.type = "Error"
        /\ errOut.id = errIn.original.id
        /\ errOut.from = errIn.original.to
        /\ errOut.to = errIn.original.from
        /\ errOut.error.lang = "en"
        /\ errIn.rejection = known("Forbidden") =>
               /\ errOut.error.condition = "Forbidden"
               /\ errOut.error.type = "Auth"
               /\ errOut.error.text = "forbidden"
        /\ errIn.rejection = item_not_found =>
               /\ errOut.error.condition = "ItemNotFound"
               /\ errOut.error.type = "Cancel"

\* a normal message with an id is rejected with Forbidden
C10_Witness ==
    /\ errIn.done
    /\ errIn.original.kind = "Message"
    /\ errIn.original.type = "Normal"
    /\ errIn.original.id = MaxId
    /\ errIn.rejection = known("Forbidden")
    /\ errOut.type = "Error"
    /\ errOut.id = MaxId
    /\ errOut.error.type = "Auth"


\* the fixed catalog of wire tokens
WireTokens ==
    {"bad-request", "conflict", "feature-not-implemented", "forbidden", "gone",
     "internal-server-error", "item-not-found", "jid-malformed",
     "not-acceptable", "not-allowed", "not-authorized", "recipient-unavailable",
     "redirect", "registration-required", "remote-server-not-found",
     "remote-server-timeout", "resource-constraint", "service-unavailable",
     "subscription-required", "undefined-condition", "unexpected-request"}

\* C15: the error stanza carries no internal diagnostic text: its text is a
\* wire token of the catalog, and rejections that differ only in the Debug
\* rendering of a custom cause give the same error stanza.
C15_NoDiagnosticText ==
    errIn.done /\ errOut # NoStanza =>
        /\ errOut.error.text \in WireTokens
        /\ \A c \in Customs :
               errIn.rejection = custom(c) =>
                   \A d \in Customs : PollErr(errIn.original, custom(d)) = errOut

\* the condition, error type and text of each known cause
KnownTable ==
    [BadRequest |-> <<"BadRequest", "Modify", "bad-request">>,
     Conflict |-> <<"Conflict", "Cancel", "conflict">>,
     FeatureNotImplemented |->
         <<"FeatureNotImplemented", "Cancel", "feature-not-implemented">>,
     Forbidden |-> <<"Forbidden", "Auth", "forbidden">>,
     Gone |-> <<"Gone", "Cancel", "gone">>,
     InternalServerError |->
         <<"InternalServerError", "Cancel", "internal-server-error">>,
     ItemNotFound |-> <<"ItemNotFound", "Cancel", "item-not-found">>,
     JidMalformed |-> <<"JidMalformed", "Modify", "jid-malformed">>,
     NotAcceptable |-> <<"NotAcceptable", "Modify", "not-acceptable">>,
     NotAllowed |-> <<"NotAllowed", "Cancel", "not-allowed">>,
     NotAuthorized |-> <<"NotAuthorized", "Auth", "not-authorized">>,
     RecipientUnavailable |->
         <<"RecipientUnavailable", "Wait", "recipient-unavailable">>,
     Redirect |-> <<"Redirect", "Modify", "redirect">>,
     RegistrationRequired |->
         <<"RegistrationRequired", "Auth", "registration-required">>,
     RemoteServerNotFound |->
         <<"RemoteServerNotFound", "Cancel", "remote-server-not-found">>,
     RemoteServerTimeout |->
         <<"RemoteServerTimeout", "Wait", "remote-server-timeout">>,
     ResourceConstraint |->
         <<"ResourceConstraint", "Wait", "resource-constraint">>,
     ServiceUnavailable |->
         <<"ServiceUnavailable", "Wait", "service-unavailable">>,
     SubscriptionRequired |->
         <<"SubscriptionRequired", "Auth", "subscription-required">>,
     UndefinedCondition |->
         <<"UndefinedCondition", "Cancel", "undefined-condition">>,
     UnexpectedRequest |->
         <<"UnexpectedRequest", "Cancel", "unexpected-request">>]

\* C16: every known cause resolves to the condition of its name, to its one
\* error type (auth, modify, wait or cancel) and to its wire token as text.
C16_KnownCauseMapping ==
    /\ DOMAIN KnownTable = Known
    /\ errIn.done /\ errOut # NoStanza =>
           \A k \in Known :
               errIn.rejection = known(k) =>
                   /\ errOut.error.condition = KnownTable[k][1]
                   /\ errOut.error.type = KnownTable[k][2]
                   /\ errOut.error.text = KnownTable[k][3]
                   /\ errOut.error.lang = "en"

\* a cause of the wait class was resolved for an IQ
C16_Witness ==
    /\ errIn.done
    /\ errIn.original.kind = "Iq"
    /\ errIn.rejection = known("RemoteServerTimeout")
    /\ errOut.error.type = "Wait"
    /\ errOut.error.text = "remote-server-timeout"

(***************************************************************************)
(* Accumulation and resolution of rejections (reject.rs): a chain of or   *)
(* branches combines the rejection of each branch with what it has, and   *)
(* the result is searched with find or turned into a stanza error.        *)
(***************************************************************************)
\* the rejections of single branches
RejLeaves ==
    {item_not_found, known("BadRequest"), known("ItemNotFound"),
     custom("Left"), custom("X(0)"), custom("X(1)")}
\* the types find is asked for
CauseTypes ==
    {KnownType("BadRequest"), KnownType("ItemNotFound"), CustomTypeOf("Left"),
     CustomTypeOf("Right"), CustomTypeOf("X(0)")}

\* the causes of a Rejections tree, left to right (Rejections::debug_list)
RECURSIVE debug_list(_)
debug_list(r) ==
    IF r[1] = "Combined" THEN debug_list(r[2]) \o debug_list(r[3]) ELSE <<r>>
\* the causes of a Rejection
Causes(rej) == IF rej[1] = "Other" THEN debug_list(rej[2]) ELSE <<>>

OpRecord(op, a, b, T, out, found, error, cond, pref) ==
    [op |-> op, a |-> a, b |-> b, T |-> T, out |-> out, found |-> found,
     error |-> error, cond |-> cond, pref |-> pref]

InitRej ==
    /\ InitCommon
    /\ errIn = NoErrIn
    /\ AmbIdle
    /\ FutIdle
    /\ EvalIdle
    /\ accRej \in RejLeaves
    /\ lastOp = NoOp

\* or: the first branch failed with accRej and the second with x
CombineRight(x) ==
    /\ Len(Causes(accRej)) < MaxCauses
    /\ accRej' = combine(accRej, x)
    /\ lastOp' = OpRecord("combine", accRej, x, NoCause, combine(accRej, x),
                          NoCause, NoError, "", NoCause)
    /\ UNCHANGED tableVars
    /\ UNCHANGED loopVars
    /\ UNCHANGED errVars
    /\ UNCHANGED outVars
    /\ UNCHANGED futVars
    /\ UNCHANGED evalVars
    /\ UNCHANGED ambVars

\* or: the first branch failed with x and the second, a chain, with accRej
CombineLeft(x) ==
    /\ Len(Causes(accRej)) < MaxCauses
    /\ accRej' = combine(x, accRej)
    /\ lastOp' = OpRecord("combine", x, accRej, NoCause, combine(x, accRej),
                          NoCause, NoError, "", NoCause)
    /\ UNCHANGED tableVars
    /\ UNCHANGED loopVars
    /\ UNCHANGED errVars
    /\ UNCHANGED outVars
    /\ UNCHANGED futVars
    /\ UNCHANGED evalVars
    /\ UNCHANGED ambVars

\* a recover callback searches the rejection for a cause of type T
Find(T) ==
    /\ lastOp' = OpRecord("find", accRej, item_not_found, T, accRej,
                          RejectionFind(accRej, T), NoError, "", NoCause)
    /\ UNCHANGED accRej
    /\ UNCHANGED tableVars
    /\ UNCHANGED loopVars
    /\ UNCHANGED errVars
    /\ UNCHANGED outVars
    /\ UNCHANGED futVars
    /\ UNCHANGED evalVars
    /\ UNCHANGED ambVars

\* the service resolves the rejection: error_condition and into_stanza_error
Resolve ==
    /\ lastOp' = OpRecord("resolve", accRej, item_not_found, NoCause, accRej,
                          NoCause, into_stanza_error(accRej),
                          RejectionErrorCondition(accRej),
                          IF accRej[1] = "Other" THEN preferred(accRej[2])
                          ELSE NoCause)
    /\ UNCHANGED accRej
    /\ UNCHANGED tableVars
    /\ UNCHANGED loopVars
    /\ UNCHANGED errVars
    /\ UNCHANGED outVars
    /\ UNCHANGED futVars
    /\ UNCHANGED evalVars
    /\ UNCHANGED ambVars

NextRej ==
    \/ \E x \in RejLeaves : CombineRight(x)
    \/ \E x \in RejLeaves : CombineLeft(x)
    \/ \E T \in CauseTypes : Find(T)
    \/ Resolve

SpecRej == InitRej /\ [][NextRej]_vars

(***************************************************************************)
(* Claims on the accumulation and resolution of rejections.                *)
(***************************************************************************)
\* C11: combine(default, default) is the default leaf, and for a non-default
\* X both combine(default, X) and combine(X, default) are X unchanged: the
\* same causes and the same resolved stanza error.
C11_CombinePriorityLaw ==
    lastOp.op = "combine" =>
        /\ (lastOp.a = item_not_found /\ lastOp.b = item_not_found) =>
               lastOp.out = item_not_found
        /\ (lastOp.a = item_not_found /\ lastOp.b # item_not_found) =>
               /\ lastOp.out = lastOp.b
               /\ Causes(lastOp.out) = Causes(lastOp.b)
               /\ into_stanza_error(lastOp.out) = into_stanza_error(lastOp.b)
        /\ (lastOp.a # item_not_found /\ lastOp.b = item_not_found) =>
               /\ lastOp.out = lastOp.a
               /\ Causes(lastOp.out) = Causes(lastOp.a)
               /\ into_stanza_error(lastOp.out) = into_stanza_error(lastOp.a)

\* the default leaf was combined with a combination of two causes
C11_Witness ==
    /\ lastOp.op = "combine"
    /\ lastOp.a = item_not_found
    /\ Len(Causes(lastOp.b)) = 2
    /\ accRej = lastOp.b

\* a cause whose condition is item-not-found: the default one in a resolution
IsDefaultCause(c) == c = <<"Known", "ItemNotFound">>
\* the first cause, left to right, that is not a default one; the first cause
\* if all are
FirstSpecific(ls) ==
    LET S == {i \in 1 .. Len(ls) : ~IsDefaultCause(ls[i])}
    IN  IF S = {} THEN ls[1]
        ELSE ls[CHOOSE i \in S : \A j \in S : i <= j]

C14_CustomIsInternalServerError ==
    lastOp.op = "resolve" /\ lastOp.a \in {custom(c) : c \in Customs} =>
        lastOp.error.condition = "InternalServerError"

\* the first cause of type T, left to right
FirstOfType(ls, T) ==
    LET S == {i \in 1 .. Len(ls) :
                 \/ ls[i][1] = "Known" /\ T = <<"Known", ls[i][2]>>
                 \/ ls[i][1] = "Custom" /\ T = <<"Custom", CustomType(ls[i][2])>>}
    IN  IF S = {} THEN NoCause
        ELSE ls[CHOOSE i \in S : \A j \in S : i <= j]

\* C17: find returns the first cause of the type asked for, left to right
\* through every combination; a cause found in an operand of a combine of
\* two non-default rejections is found in the result; nothing is found in
\* the default leaf.
C17_FindFirstOfType ==
    /\ lastOp.op = "find" =>
           /\ lastOp.found = FirstOfType(Causes(lastOp.a), lastOp.T)
           /\ lastOp.a = item_not_found => lastOp.found = NoCause
    /\ (lastOp.op = "combine" /\ lastOp.a # item_not_found
            /\ lastOp.b # item_not_found) =>
           \A T \in CauseTypes :
               (RejectionFind(lastOp.a, T) # NoCause
                    \/ RejectionFind(lastOp.b, T) # NoCause)
                   => RejectionFind(lastOp.out, T) # NoCause

\* of two causes of one type behind another cause, the first was found
C17_Witness ==
    /\ lastOp.op = "find"
    /\ Causes(lastOp.a) = <<<<"Custom", "Left">>, <<"Custom", "X(1)">>, <<"Custom", "X(0)">>>>
    /\ lastOp.T = <<"Custom", "X">>
    /\ lastOp.found = <<"Custom", "X(1)">>

\* C33: a custom cause has priority over a known cause wherever it is: a
\* combination whose causes are all bad-request except a single custom one,
\* the last and deepest on the right, resolves to undefined-condition.
C33_CustomBeatsKnown ==
    LET cs == Causes(lastOp.a)
    IN  (/\ lastOp.op = "resolve"
         /\ Len(cs) >= 2
         /\ cs[Len(cs)][1] = "Custom"
         /\ \A i \in 1 .. (Len(cs) - 1) : cs[i] = <<"Known", "BadRequest">>) =>
            /\ lastOp.cond = "UndefinedCondition"
            /\ lastOp.error.condition = "UndefinedCondition"

\* the condition and the error type a rejection resolves to
ResolvedAs(rej) ==
    <<RejectionErrorCondition(rej), into_stanza_error(rej).type>>
\* the condition and the error type of the cause that decides for the causes
\* ls: the first that is not item-not-found, the first if all are
DecidedBy(ls) ==
    IF ls = <<>> THEN <<"ItemNotFound", "Cancel">>
    ELSE <<LeafCondition(FirstSpecific(ls)), error_type(FirstSpecific(ls))>>

RECURSIVE IsRejections(_)
IsRejections(r) ==
    CASE r[1] \in {"Known", "Custom"} -> Len(r) = 2
      [] r[1] = "Combined" -> Len(r) = 3 /\ IsRejections(r[2]) /\ IsRejections(r[3])
      [] OTHER -> FALSE

\* C39: the result of a combine is the default leaf exactly if both operands
\* were, so after any sequence of combines exactly if every operand was; the
\* default leaf is never a node of a combination, and every other operand's
\* causes are all kept.
C39_DefaultOnlyFromDefaults ==
    /\ is_item_not_found(accRej) \/ (accRej[1] = "Other" /\ IsRejections(accRej[2]))
    /\ is_item_not_found(accRej) <=> Causes(accRej) = <<>>
    /\ lastOp.op = "combine" =>
           /\ is_item_not_found(lastOp.out)
                  <=> (is_item_not_found(lastOp.a) /\ is_item_not_found(lastOp.b))
           /\ Len(Causes(lastOp.out)) = Len(Causes(lastOp.a)) + Len(Causes(lastOp.b))

\* the default leaf was combined with a combination and, before, with the
\* known cause item-not-found, which is not the default leaf
C39_Witness ==
    /\ lastOp.op = "combine"
    /\ is_item_not_found(lastOp.a)
    /\ Len(Causes(lastOp.b)) = 2
    /\ Causes(lastOp.b)[1] = <<"Known", "ItemNotFound">>
    /\ ~is_item_not_found(accRej)

(***************************************************************************)
(* The ambient stanza (filtered_stanza.rs, filter/service.rs): futures of  *)
(* a FilteredService are built and polled by the threads of the runtime,   *)
(* at the top of a task or from inside a leaf of another evaluation.       *)
(***************************************************************************)
Frame(e, kind, prev) == [fut |-> e, kind |-> kind, prev |-> prev]
Top(t) == stack[t][Len(stack[t])]
Pop(t) == [stack EXCEPT ![t] = SubSeq(stack[t], 1, Len(stack[t]) - 1)]

\* filtered_stanza::set(r, func) on entry: FILTERED_STANZA refers to the cell
\* of the future, r
set_enter_shared(e) == 1
set_enter(e) == e

\* filtered_stanza::set on return or unwind: scoped_tls puts back what was
\* there before the call
set_exit_keep(frame) == frame.fut
set_exit(frame) == frame.prev

\* debug_assert!(!filtered_stanza::is_set()) fails
NestedAssert(t) == debug_assertions /\ filteredStanza[t] # NoFuture

\* a panic on thread t unwinds every call the thread is inside of: each set
\* puts back what it saved, the last of them the outermost, and the futures
\* of those calls are dropped with the task
Unwind(t, S) ==
    /\ stack' = [stack EXCEPT ![t] = <<>>]
    /\ filteredStanza' =
           IF stack[t] = <<>> THEN filteredStanza
           ELSE [filteredStanza EXCEPT ![t] = set_exit(stack[t][1])]
    /\ futs' = [e \in Futures |->
                   IF e \in S \/ \E i \in 1 .. Len(stack[t]) : stack[t][i].fut = e
                   THEN "panicked" ELSE futs[e]]

InitAmb ==
    /\ InitCommon
    /\ errIn = NoErrIn
    /\ RejIdle
    /\ FutIdle
    /\ EvalIdle
    /\ filteredStanza = [t \in Threads |-> NoFuture]
    /\ stack = [t \in Threads |-> <<>>]
    /\ futs = [e \in Futures |-> "unborn"]
    /\ observed = NoObservation
    /\ outside = "unseen"
    /\ debug_assertions \in BOOLEAN

\* FilteredService::call_stanza is entered on thread t for future e: the
\* assertion, then set() around filter()
call_stanza(t, e) ==
    /\ futs[e] = "unborn"
    /\ IF NestedAssert(t)
       THEN Unwind(t, {e})
       ELSE /\ stack' = [stack EXCEPT ![t] = Append(@, Frame(e, "call", filteredStanza[t]))]
            /\ filteredStanza' = [filteredStanza EXCEPT ![t] = set_enter(e)]
            /\ futs' = [futs EXCEPT ![e] = "constructing"]
    /\ UNCHANGED <<observed, outside, debug_assertions>>
    /\ UNCHANGED tableVars
    /\ UNCHANGED loopVars
    /\ UNCHANGED errVars
    /\ UNCHANGED outVars
    /\ UNCHANGED futVars
    /\ UNCHANGED evalVars
    /\ UNCHANGED rejVars

\* filter() has built the future: set() and call_stanza return
call_stanza_return(t) ==
    /\ stack[t] # <<>>
    /\ Top(t).kind = "call"
    /\ stack' = Pop(t)
    /\ filteredStanza' = [filteredStanza EXCEPT ![t] = set_exit(Top(t))]
    /\ futs' = [futs EXCEPT ![Top(t).fut] = "built"]
    /\ UNCHANGED <<observed, outside, debug_assertions>>
    /\ UNCHANGED tableVars
    /\ UNCHANGED loopVars
    /\ UNCHANGED errVars
    /\ UNCHANGED outVars
    /\ UNCHANGED futVars
    /\ UNCHANGED evalVars
    /\ UNCHANGED rejVars

\* FilteredFuture::poll is entered on thread t for future e: the assertion,
\* then set() around try_poll
poll(t, e) ==
    /\ futs[e] \in {"built", "pending"}
    /\ IF NestedAssert(t)
       THEN Unwind(t, {e})
       ELSE /\ stack' = [stack EXCEPT ![t] = Append(@, Frame(e, "poll", filteredStanza[t]))]
            /\ filteredStanza' = [filteredStanza EXCEPT ![t] = set_enter(e)]
            /\ futs' = [futs EXCEPT ![e] = "polling"]
    /\ UNCHANGED <<observed, outside, debug_assertions>>
    /\ UNCHANGED tableVars
    /\ UNCHANGED loopVars
    /\ UNCHANGED errVars
    /\ UNCHANGED outVars
    /\ UNCHANGED futVars
    /\ UNCHANGED evalVars
    /\ UNCHANGED rejVars

\* try_poll returns Pending or Ready: set() and poll return
poll_return(t, ready) ==
    /\ stack[t] # <<>>
    /\ Top(t).kind = "poll"
    /\ stack' = Pop(t)
    /\ filteredStanza' = [filteredStanza EXCEPT ![t] = set_exit(Top(t))]
    /\ futs' = [futs EXCEPT ![Top(t).fut] = IF ready THEN "done" ELSE "pending"]
    /\ UNCHANGED <<observed, outside, debug_assertions>>
    /\ UNCHANGED tableVars
    /\ UNCHANGED loopVars
    /\ UNCHANGED errVars
    /\ UNCHANGED outVars
    /\ UNCHANGED futVars
    /\ UNCHANGED evalVars
    /\ UNCHANGED rejVars

\* a leaf of the evaluation running on thread t calls filtered_stanza::with
stanza_with(t) ==
    /\ stack[t] # <<>>
    /\ filteredStanza[t] # NoFuture
    /\ observed' = [by |-> Top(t).fut, saw |-> filteredStanza[t]]
    /\ UNCHANGED <<filteredStanza, stack, futs, outside, debug_assertions>>
    /\ UNCHANGED tableVars
    /\ UNCHANGED loopVars
    /\ UNCHANGED errVars
    /\ UNCHANGED outVars
    /\ UNCHANGED futVars
    /\ UNCHANGED evalVars
    /\ UNCHANGED rejVars

\* a leaf of the evaluation running on thread t panics
leaf_panic(t) ==
    /\ stack[t] # <<>>
    /\ Unwind(t, {})
    /\ UNCHANGED <<observed, outside, debug_assertions>>
    /\ UNCHANGED tableVars
    /\ UNCHANGED loopVars
    /\ UNCHANGED errVars
    /\ UNCHANGED outVars
    /\ UNCHANGED futVars
    /\ UNCHANGED evalVars
    /\ UNCHANGED rejVars

\* thread t, inside no evaluation, runs other work, which looks at is_set()
other_work(t) ==
    /\ stack[t] = <<>>
    /\ outside' = IF filteredStanza[t] # NoFuture THEN "set" ELSE "unset"
    /\ UNCHANGED <<filteredStanza, stack, futs, observed, debug_assertions>>
    /\ UNCHANGED tableVars
    /\ UNCHANGED loopVars
    /\ UNCHANGED errVars
    /\ UNCHANGED outVars
    /\ UNCHANGED futVars
    /\ UNCHANGED evalVars
    /\ UNCHANGED rejVars

NextAmb ==
    \/ \E t \in Threads, e \in Futures : call_stanza(t, e)
    \/ \E t \in Threads : call_stanza_return(t)
    \/ \E t \in Threads, e \in Futures : poll(t, e)
    \/ \E t \in Threads, ready \in BOOLEAN : poll_return(t, ready)
    \/ \E t \in Threads : stanza_with(t)
    \/ \E t \in Threads : leaf_panic(t)
    \/ \E t \in Threads : other_work(t)

SpecAmb == InitAmb /\ [][NextAmb]_vars

(***************************************************************************)
(* Claims on the ambient stanza.                                           *)
(***************************************************************************)
\* future e is inside a call_stanza or a poll on some thread
InCall(e) ==
    \E t \in Threads : \E i \in 1 .. Len(stack[t]) : stack[t][i].fut = e

\* C18: the stanza of an evaluation is installed exactly while call_stanza
\* builds its future and during each of its polls, and is removed when the
\* call returns Ready or Pending or unwinds: a thread inside no call has no
\* ambient stanza, a thread inside calls has that of the innermost, and the
\* stanza of a future that is built, suspended, completed or dropped is
\* installed nowhere.
C18_AmbientExactlyDuringCalls ==
    /\ \A t \in Threads :
           filteredStanza[t] = IF stack[t] = <<>> THEN NoFuture ELSE Top(t).fut
    /\ \A e \in Futures :
           /\ InCall(e) <=> futs[e] \in {"constructing", "polling"}
           /\ ~InCall(e) =>
                  /\ \A t \in Threads : filteredStanza[t] # e
                  /\ \A t \in Threads : \A i \in 1 .. Len(stack[t]) :
                         stack[t][i].prev # e

\* one evaluation is suspended after a poll and another has completed: no
\* thread has an ambient stanza, and other work has seen none
C18_Witness ==
    /\ futs[1] = "pending"
    /\ futs[2] = "done"
    /\ \A t \in Threads : stack[t] = <<>> /\ filteredStanza[t] = NoFuture
    /\ outside = "unset"

\* C19: an evaluation is never started or polled inside another one: the
\* attempt panics, so no thread is ever inside two calls.
C19_NestedEvaluationPanics ==
    \A t \in Threads : Len(stack[t]) <= 1

\* C20: with several evaluations alive and their polls interleaved, a leaf
\* sees the stanza of its own evaluation only, and work run between polls
\* sees none.
C20_LeafSeesOwnStanza ==
    /\ observed.by = observed.saw
    /\ outside # "set"

\* a leaf of the second evaluation has looked at the stanza during a poll
\* while the first is suspended after a poll of its own
C20_Witness ==
    /\ futs[1] = "pending"
    /\ futs[2] = "polling"
    /\ observed = [by |-> 2, saw |-> 2]
    /\ outside = "unset"

(***************************************************************************)
(* The futures of or_else (filter/or_else.rs) and of the log wrapper       *)
(* (filters/log.rs), polled until they complete and once more after.       *)
(***************************************************************************)
MaxPend == 1        \* polls of a child future that return Pending

Pending == <<"Pending">>
Panic == <<"Panic">>
NotPolled == <<"None">>
Ready(out) == <<"Ready", out>>
Ok(ex) == <<"Ok", ex>>
Err(rej) == <<"Err", rej>>

\* what the wrapped filter ends with: an extraction (for the log wrapper, a
\* reply) or a rejection
ChildOutcomes == {Ok(<<"33">>), Err(item_not_found), Err(known("BadRequest"))}
\* the callbacks given to or_else: a fixed fallback, the cause rejected
\* again, another cause
Callbacks == {"fallback", "reject", "custom"}
\* F::Output: the outcome of the future the callback returns for err
callback_call(cb, err) ==
    CASE cb = "fallback" -> Ok(<<"44">>)
      [] cb = "reject" -> Err(err)
      [] cb = "custom" -> Err(custom("Left"))

\* second.call(err): the argument the callback is called with
CallbackArg_default(err) == item_not_found
CallbackArg(err) == err

NewFuture ==
    [state |-> "First", polled1 |-> 0, polled2 |-> 0, calls |-> 0,
     arg |-> item_not_found, logs |-> 0, ret |-> NotPolled, readies |-> 0,
     result |-> NotPolled, late |-> FALSE, late1 |-> FALSE]

InitFut ==
    /\ InitCommon
    /\ errIn = NoErrIn
    /\ RejIdle
    /\ AmbIdle
    /\ EvalIdle
    /\ \/ chain \in [kind : {"or_else"},
                     first : [pend : 0 .. MaxPend, out : ChildOutcomes],
                     callback : Callbacks,
                     second_pend : 0 .. MaxPend]
       \/ chain \in [kind : {"log"},
                     first : [pend : 0 .. MaxPend, out : ChildOutcomes],
                     callback : {"fallback"},
                     second_pend : {0}]
    /\ future = NewFuture

\* StateProj::Second: the future of the callback is polled; when it is
\* ready the state is Done and its outcome is returned
PollSecond(c, f) ==
    IF f.polled2 < c.second_pend
    THEN [f EXCEPT !.state = "Second", !.polled2 = @ + 1, !.ret = Pending]
    ELSE LET out == callback_call(c.callback, f.arg)
         IN  [f EXCEPT !.state = "Done", !.polled2 = @ + 1, !.ret = Ready(out),
                       !.readies = @ + 1,
                       !.result = IF f.readies = 0 THEN out ELSE @]

\* OrElseFuture::poll; again is what a first child that has completed does
\* when it is polled once more: it returns its outcome again, or panics
OrElseFuturePoll(c, f, again) ==
    CASE f.state = "First" ->
           IF f.polled1 < c.first.pend
           THEN [f EXCEPT !.polled1 = @ + 1, !.ret = Pending]
           ELSE IF f.readies > 0
           THEN [f EXCEPT !.polled1 = @ + 1, !.late1 = TRUE,
                          !.ret = IF again THEN Ready(c.first.out) ELSE Panic,
                          !.readies = IF again THEN @ + 1 ELSE @]
           ELSE IF c.first.out[1] = "Ok"
           THEN [f EXCEPT !.polled1 = @ + 1, !.ret = Ready(c.first.out),
                          !.readies = 1, !.result = c.first.out]
           ELSE PollSecond(c, [f EXCEPT !.polled1 = @ + 1, !.calls = @ + 1,
                                        !.arg = CallbackArg(c.first.out[2])])
      [] f.state = "Second" -> PollSecond(c, f)
      [] f.state = "Done" -> [f EXCEPT !.ret = Panic]

\* WithLogFuture::poll
WithLogFuturePoll(c, f) ==
    IF f.polled1 < c.first.pend
    THEN [f EXCEPT !.polled1 = @ + 1, !.ret = Pending]
    ELSE IF c.first.out[1] = "Ok"
    THEN [f EXCEPT !.polled1 = @ + 1, !.logs = @ + 1,
                   !.ret = Ready(Ok(<<"Logged">>)), !.readies = 1,
                   !.result = Ok(<<"Logged">>)]
    ELSE [f EXCEPT !.polled1 = @ + 1, !.ret = Ready(c.first.out),
                   !.readies = 1, !.result = c.first.out]

\* the task polls the or_else future, and once more after it has completed
PollOrElse(again) ==
    /\ chain.kind = "or_else"
    /\ future.ret # Panic
    /\ ~future.late
    /\ future' = [OrElseFuturePoll(chain, future, again) EXCEPT
                     !.late = future.readies > 0]
    /\ UNCHANGED chain
    /\ UNCHANGED tableVars
    /\ UNCHANGED loopVars
    /\ UNCHANGED errVars
    /\ UNCHANGED outVars
    /\ UNCHANGED rejVars
    /\ UNCHANGED ambVars
    /\ UNCHANGED evalVars

\* the task polls the future of the log wrapper until it completes
PollWithLog ==
    /\ chain.kind = "log"
    /\ future.readies = 0
    /\ future' = WithLogFuturePoll(chain, future)
    /\ UNCHANGED chain
    /\ UNCHANGED tableVars
    /\ UNCHANGED loopVars
    /\ UNCHANGED errVars
    /\ UNCHANGED outVars
    /\ UNCHANGED rejVars
    /\ UNCHANGED ambVars
    /\ UNCHANGED evalVars

NextFut ==
    \/ \E again \in BOOLEAN : PollOrElse(again)
    \/ PollWithLog

SpecFut == InitFut /\ [][NextFut]_vars

\* C26: in a.or_else(f), if a succeeds the outcome is a's extraction and f is
\* not called; if a fails, f is called exactly once, with the cause a failed
\* with, and the outcome is the outcome of f.
C26_OrElseOutcome ==
    chain.kind = "or_else" =>
        IF chain.first.out[1] = "Ok"
        THEN /\ future.calls = 0
             /\ future.readies > 0 => future.result = chain.first.out
        ELSE /\ future.calls <= 1
             /\ future.calls = 1 => future.arg = chain.first.out[2]
             /\ future.readies > 0 =>
                    /\ future.calls = 1
                    /\ future.result = callback_call(chain.callback, chain.first.out[2])

\* a was pending, then failed with bad-request; f rejected with the cause it
\* was given, after being pending itself
C26_Witness ==
    /\ chain.kind = "or_else"
    /\ chain.first = [pend |-> 1, out |-> Err(known("BadRequest"))]
    /\ chain.callback = "reject"
    /\ chain.second_pend = 1
    /\ future.state = "Done"
    /\ future.calls = 1
    /\ future.result = Err(known("BadRequest"))

\* C28: the callback of the log wrapper is called exactly once for every
\* completed evaluation of the wrapped filter, with a reply or a rejection,
\* and never while the evaluation is pending.
C28_LoggedOncePerCompletion ==
    chain.kind = "log" =>
        future.logs = IF future.readies > 0 THEN 1 ELSE 0

\* C29: an or_else future moves First, Second, Done only, and once it has
\* returned a result, by whichever path, it is over: a further poll panics
\* and polls neither child.
C29_OrElseTerminal ==
    chain.kind = "or_else" /\ future.readies > 0 =>
        /\ future.state = "Done"
        /\ ~future.late1
        /\ future.late => future.ret = Panic

(***************************************************************************)
(* Filter chains: leaves composed with and, or and recover, evaluated      *)
(* against one stanza, and the response the service makes of the outcome.  *)
(***************************************************************************)
\* Option<Jid> as it is extracted
JidText(j) == IF j = NoJid THEN "None" ELSE ToString(j)

\* the outcome of one evaluation: an extraction or a rejection, and the
\* leaves and callbacks that ran, in order
Succeeded(ex, log) == [ok |-> TRUE, ex |-> ex, err |-> NoCause, log |-> log]
Failed(rej, log) == [ok |-> FALSE, ex |-> <<>>, err |-> rej, log |-> log]
LeafEvent(n, st) == [kind |-> "leaf", name |-> n, stanza |-> st, arg |-> NoCause]
CallbackEvent(cb, err) ==
    [kind |-> "callback", name |-> cb, stanza |-> NoStanza, arg |-> err]

\* leaves that cannot fail / that can
InfallibleLeaves == {"any", "str1", "true1", "from"}
RejectingLeaves == {"message", "iq", "get", "require_from", "bad_request", "custom"}
Leaves == InfallibleLeaves \cup RejectingLeaves

\* the closure of a leaf applied to the ambient stanza
filter_fn(n, st) ==
    LET log == <<LeafEvent(n, st)>>
    IN  CASE n = "any" -> Succeeded(<<>>, log)
          [] n = "str1" -> Succeeded(<<"wax">>, log)
          [] n = "true1" -> Succeeded(<<"true">>, log)
          [] n = "from" -> Succeeded(<<JidText(st.from)>>, log)
          [] n = "message" ->
               IF st.kind = "Message" THEN Succeeded(<<>>, log)
               ELSE Failed(item_not_found, log)
          [] n = "iq" ->
               IF st.kind = "Iq" THEN Succeeded(<<>>, log)
               ELSE Failed(item_not_found, log)
          [] n = "get" ->
               IF st.kind = "Iq" /\ st.type = "Get" THEN Succeeded(<<>>, log)
               ELSE Failed(item_not_found, log)
          [] n = "require_from" ->
               IF st.from # NoJid THEN Succeeded(<<JidText(st.from)>>, log)
               ELSE Failed(item_not_found, log)
          [] n = "bad_request" -> Failed(known("BadRequest"), log)
          [] n = "custom" -> Failed(custom("Left"), log)
          [] n \in {"body", "take_body"} ->
               IF st.kind = "Message" /\ st.payload = "Some"
               THEN Succeeded(<<"body">>, log)
               ELSE Failed(item_not_found, log)

\* filtered_stanza::with(func): func receives the stanza of the cell as
\* &mut Stanza, and the cell holds what func leaves there.  The leaves of
\* src/filters match on the stanza and clone what they extract; take_body is
\* a closure that moves the body out through the borrow.
with(n, st) ==
    IF n = "take_body" /\ st.kind = "Message"
    THEN [st EXCEPT !.payload = "None"]
    ELSE st

\* filter expressions
leaf(n) == <<"leaf", n>>
and(a, b) == <<"and", a, b>>
or(a, b) == <<"or", a, b>>
recover(a, cb) == <<"recover", a, cb>>

\* HList concatenation: the extractions of the two sides, flattened
Combine_pad(x, y) == IF y = <<>> THEN x \o <<"()">> ELSE x \o y
Combine(x, y) == x \o y

\* and: self, then other only if self succeeded
AndFuture_eager(ra, rb) ==
    IF ra.ok
    THEN IF rb.ok THEN Succeeded(Combine(ra.ex, rb.ex), ra.log \o rb.log)
         ELSE Failed(rb.err, ra.log \o rb.log)
    ELSE Failed(ra.err, ra.log \o rb.log)
AndFuture(ra, rb) ==
    IF ra.ok
    THEN IF rb.ok THEN Succeeded(Combine(ra.ex, rb.ex), ra.log \o rb.log)
         ELSE Failed(rb.err, ra.log \o rb.log)
    ELSE ra

\* or: self, then other only if self failed; two failures are combined
OrFuture(ra, rb) ==
    IF ra.ok THEN ra
    ELSE IF rb.ok THEN Succeeded(rb.ex, ra.log \o rb.log)
    ELSE Failed(combine(ra.err, rb.err), ra.log \o rb.log)

\* recover: the callback is called with the rejection of a failed self
RecoverFuture_ignore(ra, cb) ==
    IF ra.ok THEN ra
    ELSE Failed(ra.err, ra.log \o <<CallbackEvent(cb, ra.err)>>)
RecoverFuture(ra, cb) ==
    IF ra.ok THEN ra
    ELSE LET out == callback_call(cb, ra.err)
             log == ra.log \o <<CallbackEvent(cb, ra.err)>>
         IN  IF out[1] = "Ok" THEN Succeeded(out[2], log) ELSE Failed(out[2], log)

\* or: the stanza other is evaluated against, given the stanza self was given
\* and the stanza self left in the cell
OrSnapshot_current(original, current) == current
OrSnapshot(original, current) == original

\* Eval: the outcome of a chain evaluated with st in the cell; After: the
\* stanza in the cell when the evaluation is over.  The service sets the one
\* cell for every poll, so other of an and finds what self left.
RECURSIVE Eval(_, _)
RECURSIVE After(_, _)
Eval(f, st) ==
    CASE f[1] = "leaf" -> filter_fn(f[2], st)
      [] f[1] = "and" -> AndFuture(Eval(f[2], st), Eval(f[3], After(f[2], st)))
      [] f[1] = "or" ->
           OrFuture(Eval(f[2], st),
                    Eval(f[3], OrSnapshot(st, After(f[2], st))))
      [] f[1] = "recover" -> RecoverFuture(Eval(f[2], st), f[3])
After(f, st) ==
    CASE f[1] = "leaf" -> with(f[2], st)
      [] f[1] = "and" ->
           IF Eval(f[2], st).ok THEN After(f[3], After(f[2], st))
           ELSE After(f[2], st)
      [] f[1] = "or" ->
           IF Eval(f[2], st).ok THEN After(f[2], st)
           ELSE After(f[3], OrSnapshot(st, After(f[2], st)))
      [] f[1] = "recover" -> After(f[2], st)

\* CombineRejection::One and ::Combined, on the error types
CombineOne_either(x, y) ==
    IF x = "Infallible" \/ y = "Infallible" THEN "Infallible" ELSE "Rejection"
CombineOne(x, y) ==
    IF x = "Infallible" /\ y = "Infallible" THEN "Infallible" ELSE "Rejection"
CombineCombined(x, y) ==
    IF x = "Rejection" /\ y = "Rejection" THEN "Rejection" ELSE "Infallible"

\* the error type of the future a callback returns
CallbackError(cb) == IF cb = "fallback" THEN "Infallible" ELSE "Rejection"

\* Filter::Error of an expression
RECURSIVE Error(_)
Error(f) ==
    CASE f[1] = "leaf" -> IF f[2] \in InfallibleLeaves THEN "Infallible" ELSE "Rejection"
      [] f[1] = "and" -> CombineOne(Error(f[2]), Error(f[3]))
      [] f[1] = "or" -> CombineCombined(Error(f[2]), Error(f[3]))
      [] f[1] = "recover" -> CallbackError(f[3])

\* the chains evaluated: a leaf, two leaves under and / or, three under and,
\* and a recover around a leaf or around an or of two
Leaves3 == {"any", "str1", "from", "get", "bad_request"}
\* the leaves that extract the body of a message
BodyLeaves == {"body", "take_body"}
Filters ==
    {leaf(n) : n \in Leaves}
    \cup {and(leaf(a), leaf(b)) : a \in Leaves, b \in Leaves}
    \cup {or(leaf(a), leaf(b)) : a \in Leaves, b \in Leaves}
    \cup {and(and(leaf(a), leaf(b)), leaf(c)) : a \in Leaves3, b \in Leaves3, c \in Leaves3}
    \cup {recover(leaf(a), cb) : a \in Leaves, cb \in Callbacks}
    \cup {recover(or(leaf(a), leaf("get")), cb) : a \in RejectingLeaves, cb \in Callbacks}
    \cup {or(and(leaf(a), leaf(b)), leaf(c)) :
              a \in BodyLeaves, b \in {"iq", "message"}, c \in {"body", "from"}}

\* the stanzas a chain is evaluated against
ChainStanzas == {st \in Stanzas : st.to = NoJid}

NoOutcome == Failed(NoCause, <<>>)
NoResponse == [kind |-> "None", ex |-> <<>>, stanza |-> NoStanza]

InitChain ==
    /\ InitCommon
    /\ errIn = NoErrIn
    /\ RejIdle
    /\ AmbIdle
    /\ FutIdle
    /\ filterIn \in [f : Filters, stanza : ChainStanzas]
    /\ filterOut = [phase |-> "new", res |-> NoOutcome, sent |-> NoResponse]

\* the chain is evaluated against the stanza
Evaluate ==
    /\ filterOut.phase = "new"
    /\ filterOut' = [filterOut EXCEPT !.phase = "evaluated",
                                      !.res = Eval(filterIn.f, filterIn.stanza)]
    /\ UNCHANGED filterIn
    /\ UNCHANGED tableVars
    /\ UNCHANGED loopVars
    /\ UNCHANGED errVars
    /\ UNCHANGED outVars
    /\ UNCHANGED rejVars
    /\ UNCHANGED ambVars
    /\ UNCHANGED futVars

\* the service turns the outcome into a response: the reply, or the error
\* stanza of the rejection
Respond ==
    /\ filterOut.phase = "evaluated"
    /\ filterOut' =
           [filterOut EXCEPT
               !.phase = "responded",
               !.sent = IF filterOut.res.ok
                        THEN [kind |-> "Reply", ex |-> filterOut.res.ex,
                              stanza |-> NoStanza]
                        ELSE [kind |-> "Error", ex |-> <<>>,
                              stanza |-> PollErr(filterIn.stanza, filterOut.res.err)]]
    /\ UNCHANGED filterIn
    /\ UNCHANGED tableVars
    /\ UNCHANGED loopVars
    /\ UNCHANGED errVars
    /\ UNCHANGED outVars
    /\ UNCHANGED rejVars
    /\ UNCHANGED ambVars
    /\ UNCHANGED futVars

NextChain == Evaluate \/ Respond

SpecChain == InitChain /\ [][NextChain]_vars

Evaluated == filterOut.phase # "new"
IsAnd(f) == f[1] = "and"
IsOr(f) == f[1] = "or"
IsRecover(f) == f[1] = "recover"

\* the extractions of the leaves of a chain of and, left to right
RECURSIVE LeafExtractions(_, _)
LeafExtractions(f, st) ==
    IF IsAnd(f) THEN LeafExtractions(f[2], st) \o LeafExtractions(f[3], st)
    ELSE Eval(f, st).ex

\* C22: where all sides succeed, a.and(b).and(c) and a.and(b.and(c)) extract
\* the same flat tuple, the extractions of the leaves in order, and a side
\* that extracts the unit adds nothing: a.and(unit) and unit.and(a) extract
\* what a extracts.
C22_AndFlattens ==
    LET f == filterIn.f
        st == filterIn.stanza
        res == filterOut.res
    IN  Evaluated /\ IsAnd(f) /\ res.ok =>
            /\ res.ex = LeafExtractions(f, st)
            /\ IsAnd(f[2]) =>
                   LET g == and(f[2][2], and(f[2][3], f[3]))
                   IN  Eval(g, st).ok /\ Eval(g, st).ex = res.ex
            /\ Eval(f[3], st).ex = <<>> => res.ex = Eval(f[2], st).ex
            /\ Eval(f[2], st).ex = <<>> => res.ex = Eval(f[3], st).ex

\* from().and(any()).and(str1): the unit in the middle adds nothing
C22_Witness ==
    /\ Evaluated
    /\ filterIn.f = and(and(leaf("from"), leaf("any")), leaf("str1"))
    /\ filterIn.stanza.from # NoJid
    /\ filterOut.res.ok
    /\ filterOut.res.ex = <<JidText(filterIn.stanza.from), "wax">>

\* C23: in a.and(b), b is evaluated only after a has succeeded, against the
\* same stanza; if a fails, b is not evaluated and the outcome is a's error.
C23_AndShortCircuits ==
    LET f == filterIn.f
        st == filterIn.stanza
        res == filterOut.res
        ra == Eval(f[2], st)
        rb == Eval(f[3], st)
    IN  Evaluated /\ IsAnd(f) =>
            /\ \A i \in 1 .. Len(res.log) : res.log[i].stanza = st
            /\ ra.ok => res.log = ra.log \o rb.log
            /\ ~ra.ok => /\ res.log = ra.log
                         /\ ~res.ok
                         /\ res.err = ra.err

\* iq().get() against a message: iq fails, get is not evaluated
C23_Witness ==
    /\ Evaluated
    /\ filterIn.f = and(leaf("iq"), leaf("get"))
    /\ filterIn.stanza.kind = "Message"
    /\ filterOut.res = Failed(item_not_found, <<LeafEvent("iq", filterIn.stanza)>>)

\* C24: in a.or(b), b is evaluated only if a fails; if both fail the
\* rejection is combine(a's, b's), so a specific cause of either branch
\* beats the item-not-found of a branch that did not match.
C24_OrCombines ==
    LET f == filterIn.f
        st == filterIn.stanza
        res == filterOut.res
        ra == Eval(f[2], st)
        rb == Eval(f[3], st)
    IN  Evaluated /\ IsOr(f) =>
            /\ ra.ok => res = ra
            /\ ~ra.ok => res.log = ra.log \o rb.log
            /\ ~ra.ok /\ rb.ok => res.ok /\ res.ex = rb.ex
            /\ ~ra.ok /\ ~rb.ok =>
                   /\ ~res.ok
                   /\ res.err = combine(ra.err, rb.err)
                   /\ rb.err = item_not_found =>
                          RejectionErrorCondition(res.err) = RejectionErrorCondition(ra.err)
                   /\ ra.err = item_not_found =>
                          RejectionErrorCondition(res.err) = RejectionErrorCondition(rb.err)

\* bad_request.or(get) against a message: bad-request beats the get that
\* did not match
C24_Witness ==
    /\ Evaluated
    /\ filterIn.f = or(leaf("bad_request"), leaf("get"))
    /\ filterIn.stanza.kind = "Message"
    /\ ~filterOut.res.ok
    /\ filterOut.res.err = known("BadRequest")
    /\ Len(filterOut.res.log) = 2

\* C25: a chain fails only if its error type is Rejection; a.and(b) fails
\* with the error of a side that can fail, with a infallible its error type
\* is b's and its error b's; a.or(b) with an infallible side is infallible
\* and never fails.
C25_InfallibilityPropagates ==
    LET f == filterIn.f
        st == filterIn.stanza
        res == filterOut.res
    IN  Evaluated =>
            /\ ~res.ok => Error(f) = "Rejection"
            /\ IsAnd(f) /\ ~res.ok =>
                   \/ Error(f[2]) = "Rejection" /\ res.err = Eval(f[2], st).err
                   \/ Error(f[3]) = "Rejection" /\ res.err = Eval(f[3], st).err
            /\ IsAnd(f) /\ Error(f[2]) = "Infallible" =>
                   /\ Error(f) = Error(f[3])
                   /\ ~res.ok => res.err = Eval(f[3], st).err
            /\ IsOr(f) /\ (Error(f[2]) = "Infallible" \/ Error(f[3]) = "Infallible") =>
                   /\ Error(f) = "Infallible"
                   /\ res.ok

\* from().and(get) against a presence: the failure is get's
C25_Witness ==
    /\ Evaluated
    /\ filterIn.f = and(leaf("from"), leaf("get"))
    /\ filterIn.stanza.kind = "Presence"
    /\ ~filterOut.res.ok
    /\ filterOut.res.err = item_not_found
    /\ Len(filterOut.res.log) = 2

CallbackEvents(log) == {i \in 1 .. Len(log) : log[i].kind = "callback"}

\* C27: in a.recover(f), if a succeeds the reply is a's and f is not called;
\* if a fails, f is called with the rejection and its outcome is the
\* outcome of the chain: Ok is the reply, Err is rejected again and the
\* error stanza of the returned rejection is made.
C27_RecoverOutcome ==
    LET f == filterIn.f
        st == filterIn.stanza
        res == filterOut.res
        ra == Eval(f[2], st)
        out == callback_call(f[3], ra.err)
    IN  Evaluated /\ IsRecover(f) =>
            /\ ra.ok => /\ res = ra
                        /\ CallbackEvents(res.log) = {}
            /\ ~ra.ok =>
                   /\ CallbackEvents(res.log) = {Len(res.log)}
                   /\ res.log[Len(res.log)].arg = ra.err
                   /\ res.ok = (out[1] = "Ok")
                   /\ res.ok => res.ex = out[2]
                   /\ ~res.ok => res.err = out[2]
            /\ filterOut.phase = "responded" =>
                   IF res.ok
                   THEN filterOut.sent = [kind |-> "Reply", ex |-> res.ex,
                                          stanza |-> NoStanza]
                   ELSE filterOut.sent =
                            [kind |-> "Error", ex |-> <<>>,
                             stanza |-> make_error_stanza(st, into_stanza_error(res.err))]

\* require_from().recover(reject) against an IQ without from: rejected,
\* recovered, rejected again, answered with item-not-found
C27_Witness ==
    /\ filterOut.phase = "responded"
    /\ filterIn.f = recover(leaf("require_from"), "reject")
    /\ filterIn.stanza.kind = "Iq"
    /\ filterIn.stanza.from = NoJid
    /\ filterOut.res.err = item_not_found
    /\ filterOut.sent.kind = "Error"
    /\ filterOut.sent.stanza.type = "Error"
    /\ filterOut.sent.stanza.error.condition = "ItemNotFound"

====
